---- MODULE Spec2Model ----
(***************************************************************************)
(* Model of the API communication layer of IC-Frontend (lib/api.ts and     *)
(* lib/health-check.ts, kept in src/unnamed/part_001): the transport       *)
(* fetchWithTimeout with its per-attempt deadline and retry loop, the four *)
(* endpoint operations of apiClient, the response normaliser and the file  *)
(* validator.                                                              *)
(*                                                                         *)
(* Time is a millisecond clock `now`.  setTimeout arms a timer with a due  *)
(* time; a timer fires when the clock reaches its due time, and the clock  *)
(* never passes a due timer.  The network is the environment: a pending    *)
(* fetch may resolve with any response or reject at any moment.            *)
(***************************************************************************)
EXTENDS Integers, Sequences, FiniteSets, TLC

VARIABLES
    now,      \* the clock, in milliseconds
    timers,   \* the armed timers (setTimeout not yet fired or cleared)
    aborted,  \* the AbortControllers whose signal has fired: <<call, attempt>>
    call,     \* call id -> the frame of one endpoint-client invocation
    mapIn,    \* the payload handed to mapApiResponseToFrontend
    mapOut,   \* its outcome
    fileIn,   \* the File handed to validateFile
    fileOut,  \* its outcome
    nameIn,   \* the value handed to validateUniversityName
    nameOut,  \* its outcome
    upload,   \* the upload page: its file list and its analyses in flight
    storage,  \* the localStorage item 'analysisResult'
    reports,  \* the reports page
    health    \* the invocation of checkBackendHealth

vars == <<now, timers, aborted, call, mapIn, mapOut, fileIn, fileOut,
          nameIn, nameOut, upload, storage, reports, health>>

netVars == <<now, timers, aborted, call>>
mapVars == <<mapIn, mapOut>>
valVars == <<fileIn, fileOut, nameIn, nameOut>>
appVars == <<upload, storage, reports, health>>

----------------------------------------------------------------------------
(* Program constants.                                                      *)

FETCH_TIMEOUT == 30000
UNIVERSITY_TIMEOUT == 100000
MAX_RETRIES == 2
HEALTH_TIMEOUT == 5000
HEALTH_RETRIES == 1
BACKOFF_UNIT == 1000
MIN_NAME_LENGTH == 3

(* Bounds of the model.                                                    *)

MaxRetriesArg == 2      \* direct transport calls use retries 0..MaxRetriesArg
MaxNameLen == 3         \* university names have at most this many characters
Early == 500            \* the clock may stop this long before a timer is due

----------------------------------------------------------------------------
(* JSON values as JavaScript sees them.                                    *)

Undefined == [t |-> "undefined"]
JNull == [t |-> "null"]
JStr(s) == [t |-> "str", s |-> s]
JNum(n) == [t |-> "num", n |-> n]
JArr(a) == [t |-> "arr", a |-> a]
JObj(f) == [t |-> "obj", f |-> f]

\* v.name: undefined for a missing property and for a property of a primitive
Get(v, name) ==
    IF v.t = "obj" /\ name \in DOMAIN v.f THEN v.f[name] ELSE Undefined

\* reading a property of null or undefined throws a TypeError
CanRead(v) == v.t \notin {"null", "undefined"}

\* ToBoolean
Truthy(v) ==
    CASE v.t = "undefined" -> FALSE
      [] v.t = "null" -> FALSE
      [] v.t = "str" -> v.s # ""
      [] v.t = "chars" -> v.c # <<>>
      [] v.t = "num" -> v.n # 0
      [] OTHER -> TRUE

\* a || b
Or(a, b) == IF Truthy(a) THEN a ELSE b

IsArray(v) == v.t = "arr"

----------------------------------------------------------------------------
(* The Error Model.                                                        *)

ApiError(message, status) ==
    [type |-> "ApiError", message |-> message, status |-> status]

\* a failure that is not an ApiError: it has a name and a message, no status
JsError(type, message) == [type |-> type, message |-> message]

IsApiError(e) == e.type = "ApiError"

\* error.message.includes(word), over the messages that occur
Includes(message, word) ==
    <<message, word>> \in
        { <<"Failed to fetch", "fetch">>,
          <<"Request timeout after ${timeout / 1000} seconds", "timeout">>,
          <<"Analysis timeout - please try with a smaller document", "timeout">>,
          <<"University search timeout - please try again", "timeout">> }

----------------------------------------------------------------------------
(* Transport: fetchWithTimeout.                                            *)

RECURSIVE Pow2(_)
\* Math.pow(2, n)
Pow2(n) == IF n <= 0 THEN 1 ELSE 2 * Pow2(n - 1)

\* mutant: the exponent counts the attempt about to be made
BackoffDelay_NextAttempt(attempt) == Pow2(attempt + 1) * BACKOFF_UNIT

\* the delay of the backoff that follows the failure of attempt `attempt`
BackoffDelay(attempt) == Pow2(attempt) * BACKOFF_UNIT

\* the loop condition of the retry loop
LoopCond(attempt, retries) == attempt <= retries

\* mutant: the catch block gives up one attempt early
IsLastAttempt_OneEarly(attempt, retries) == attempt = retries - 1

\* the catch block gives up on the last allowed attempt
IsLastAttempt(attempt, retries) == attempt = retries

\* mutant: every exhausted call is reported as a timeout
ExhaustError_AlwaysTimeout(error) ==
    ApiError("Request timeout after ${timeout / 1000} seconds", 408)

\* what the catch block throws once the retries are exhausted
ExhaustError(error) ==
    IF error.type = "AbortError"
    THEN ApiError("Request timeout after ${timeout / 1000} seconds", 408)
    ELSE error

\* the fall-through after the loop
MaxRetriesError == JsError("Error", "Maximum retries exceeded")

\* the rejection of fetch when its signal aborts, and when the network fails
AbortError == JsError("AbortError", "The operation was aborted.")
NetworkErrorMessages == {"Failed to fetch", "Load failed"}
NetworkError(message) == JsError("TypeError", message)

DeadlineTimer(c, attempt, due) ==
    [call |-> c, kind |-> "deadline", attempt |-> attempt, due |-> due]
BackoffTimer(c, attempt, due) ==
    [call |-> c, kind |-> "backoff", attempt |-> attempt, due |-> due]

\* mutant: one controller shared by the attempts of a call, so that a
\* deadline aborts whichever attempt is in flight
AbortTarget_Shared(t) == <<t.call, call[t.call].attempt>>

\* one controller per attempt number shared by all calls, so that a deadline
\* of one call aborts another call
AbortTarget_OtherCall(t) ==
    <<IF DOMAIN call = {t.call} THEN t.call
      ELSE CHOOSE d \in DOMAIN call : d # t.call, t.attempt>>

\* the controller that the deadline callback of timer t aborts: the one
\* created in the same loop iteration
AbortTarget(t) == <<t.call, t.attempt>>

Ok(status) == status >= 200 /\ status <= 299

----------------------------------------------------------------------------
(* Endpoint client: the catch blocks of the four operations.               *)

getHealthCatch(error) ==
    IF IsApiError(error) THEN error
    ELSE ApiError("Cannot connect to backend server", 0)

getStatusCatch(error) ==
    IF IsApiError(error) THEN error
    ELSE ApiError("Cannot get server status", 0)

analyzeDocumentCatch(error) ==
    IF IsApiError(error) THEN error
    ELSE IF Includes(error.message, "timeout")
    THEN ApiError("Analysis timeout - please try with a smaller document", 408)
    ELSE ApiError("Analysis failed: ${error.message}", 500)

\* mutant: a failure that no branch recognises is thrown on as it is
searchUniversityReviewsCatch_Rethrow(error) ==
    IF IsApiError(error) THEN error
    ELSE IF Includes(error.message, "timeout")
    THEN ApiError("University search timeout - please try again", 408)
    ELSE IF error.type = "TypeError" /\ Includes(error.message, "fetch")
    THEN ApiError("Unable to connect to the server. Please check your internet connection.", 0)
    ELSE IF error.type = "SyntaxError"
    THEN ApiError("Invalid response format from server", 500)
    ELSE error

searchUniversityReviewsCatch(error) ==
    IF IsApiError(error) THEN error
    ELSE IF Includes(error.message, "timeout")
    THEN ApiError("University search timeout - please try again", 408)
    ELSE IF error.type = "TypeError" /\ Includes(error.message, "fetch")
    THEN ApiError("Unable to connect to the server. Please check your internet connection.", 0)
    ELSE IF error.type = "SyntaxError"
    THEN ApiError("Invalid response format from server", 500)
    ELSE ApiError("Unexpected error: ${error.message}", 500)

\* a failure inside the try block of operation op, as the caller sees it; a
\* direct call of fetchWithTimeout has no catch block around it
OpCatch(op, error) ==
    CASE op = "getHealth" -> getHealthCatch(error)
      [] op = "getStatus" -> getStatusCatch(error)
      [] op = "analyzeDocument" -> analyzeDocumentCatch(error)
      [] op = "searchUniversityReviews" -> searchUniversityReviewsCatch(error)
      [] OTHER -> error

Thrown(error) == [st |-> "thrown", error |-> error]
Returned(value) == [st |-> "returned", value |-> value]
Pending == [st |-> "pending"]

----------------------------------------------------------------------------
(* University names are sequences of characters; " " is the whitespace.    *)

\* the white space String.prototype.trim and the regular expression class \s
\* strip or match, as far as the model's strings contain it
WhiteSpace == {" ", "\t", "\n"}

IsSpace(ch) == ch \in WhiteSpace

RECURSIVE trimStart(_)
trimStart(s) ==
    IF s # <<>> /\ IsSpace(Head(s)) THEN trimStart(Tail(s)) ELSE s

RECURSIVE trimEnd(_)
trimEnd(s) ==
    IF s # <<>> /\ IsSpace(s[Len(s)])
    THEN trimEnd(SubSeq(s, 1, Len(s) - 1))
    ELSE s

\* String.prototype.trim
trim(s) == trimEnd(trimStart(s))

\* a string value whose characters the model follows
JChars(s) == [t |-> "chars", c |-> s]

----------------------------------------------------------------------------
(* Endpoint client: what each operation does with the response.            *)

ApiErrorWith(message, status, response) ==
    [type |-> "ApiError", message |-> message, status |-> status,
     response |-> response]

\* the message of an ApiError built from a value of the response body
MessageOf(v) == IF v.t = "str" THEN v.s ELSE "[non-string value]"

\* response.json(): the parsed body, or a rejection
JsonResult(body) ==
    CASE body.k = "nonjson" ->
            [ok |-> FALSE, error |-> JsError("SyntaxError", "Unexpected token < in JSON at position 0")]
      [] body.k = "streamfail" ->
            [ok |-> FALSE, error |-> JsError("TypeError", "network error")]
      [] OTHER -> [ok |-> TRUE, value |-> body.v]

NullReadError == JsError("TypeError", "Cannot read properties of null")

\* v?.name
OptGet(v, name) == IF CanRead(v) THEN Get(v, name) ELSE Undefined

\* the raw value kept whatever it is
ArrayOrEmpty_Raw(v) == v

\* Array.isArray(v) ? v : []
ArrayOrEmpty(v) == IF IsArray(v) THEN v ELSE JArr(<<>>)

\* the normalizedResponse object of searchUniversityReviews
NormalizeUniversity(responseData, universityName) ==
    LET rs == Get(responseData, "review_summary") IN
    JObj([university_name |->
              Or(Get(responseData, "university_name"), JChars(universityName)),
          nirf_ranking |-> Or(Get(responseData, "nirf_ranking"), JNull),
          negative_reviews |-> ArrayOrEmpty(Get(responseData, "negative_reviews")),
          positive_reviews |-> ArrayOrEmpty(Get(responseData, "positive_reviews")),
          review_summary |->
              JObj([total_negative_reviews |->
                        Or(OptGet(rs, "total_negative_reviews"), JNum(0)),
                    total_positive_reviews |->
                        Or(OptGet(rs, "total_positive_reviews"), JNum(0)),
                    average_rating |-> Or(OptGet(rs, "average_rating"), JNum(0)),
                    common_complaints |->
                        Or(OptGet(rs, "common_complaints"), JArr(<<>>)),
                    common_praises |->
                        Or(OptGet(rs, "common_praises"), JArr(<<>>))]),
          sources |-> ArrayOrEmpty(Get(responseData, "sources")),
          analysis_timestamp |->
              Or(Get(responseData, "analysis_timestamp"),
                 JStr("new Date().toISOString()")),
          search_status |-> Or(Get(responseData, "search_status"), JStr("success")),
          error |-> Get(responseData, "error"),
          message |-> Get(responseData, "message"),
          suggestions |-> Get(responseData, "suggestions"),
          api_version |-> Get(responseData, "api_version"),
          search_method |-> Get(responseData, "search_method"),
          processing_time |-> Get(responseData, "processing_time"),
          debug_info |-> Get(responseData, "debug_info")])

\* getHealth and getStatus after a 2xx response: return await response.json()
healthBody(op, body) ==
    LET jr == JsonResult(body) IN
    IF jr.ok THEN Returned(jr.value) ELSE Thrown(OpCatch(op, jr.error))

\* mutant: the structure of a 2xx body is not checked
analyzeDocumentBody_NoValidation(status, body) ==
    LET jr == JsonResult(body) IN
    IF ~Ok(status)
    THEN LET errorData == IF jr.ok THEN jr.value ELSE JObj(<<>>) IN
         IF ~CanRead(errorData)
         THEN Thrown(analyzeDocumentCatch(NullReadError))
         ELSE Thrown(analyzeDocumentCatch(ApiErrorWith(
                  MessageOf(Or(Or(Get(errorData, "detail"), Get(errorData, "error")),
                               JStr("Analysis failed with status ${response.status}"))),
                  status, errorData)))
    ELSE IF ~jr.ok THEN Thrown(analyzeDocumentCatch(jr.error))
    ELSE Returned(jr.value)

\* analyzeDocument from `if (!response.ok)` to `return responseData`
analyzeDocumentBody(status, body) ==
    LET jr == JsonResult(body) IN
    IF ~Ok(status)
    THEN LET errorData == IF jr.ok THEN jr.value ELSE JObj(<<>>) IN
         IF ~CanRead(errorData)
         THEN Thrown(analyzeDocumentCatch(NullReadError))
         ELSE Thrown(analyzeDocumentCatch(ApiErrorWith(
                  MessageOf(Or(Or(Get(errorData, "detail"), Get(errorData, "error")),
                               JStr("Analysis failed with status ${response.status}"))),
                  status, errorData)))
    ELSE IF ~jr.ok THEN Thrown(analyzeDocumentCatch(jr.error))
    ELSE IF ~CanRead(jr.value) THEN Thrown(analyzeDocumentCatch(NullReadError))
    ELSE IF ~Truthy(Get(jr.value, "summary")) \/ ~Truthy(Get(jr.value, "claims"))
    THEN Thrown(analyzeDocumentCatch(
             ApiError("Invalid response structure from backend", 500)))
    ELSE Returned(jr.value)

\* mutant: every non-2xx response is a failure, whatever its body says
searchUniversityReviewsBody_StrictStatus(status, body, universityName) ==
    LET jr == JsonResult(body) IN
    IF ~jr.ok THEN Thrown(searchUniversityReviewsCatch(jr.error))
    ELSE IF ~CanRead(jr.value)
    THEN Thrown(searchUniversityReviewsCatch(NullReadError))
    ELSE IF ~Ok(status)
    THEN Thrown(searchUniversityReviewsCatch(ApiErrorWith(
             MessageOf(Or(Or(Get(jr.value, "detail"), Get(jr.value, "error")),
                          JStr("Request failed with status ${response.status}"))),
             status, jr.value)))
    ELSE Returned(NormalizeUniversity(jr.value, universityName))

\* searchUniversityReviews from `await response.json()` to the return
searchUniversityReviewsBody(status, body, universityName) ==
    LET jr == JsonResult(body) IN
    IF ~jr.ok THEN Thrown(searchUniversityReviewsCatch(jr.error))
    ELSE IF ~CanRead(jr.value)
    THEN Thrown(searchUniversityReviewsCatch(NullReadError))
    ELSE IF ~Ok(status) /\ ~Truthy(Get(jr.value, "search_status"))
    THEN Thrown(searchUniversityReviewsCatch(ApiErrorWith(
             MessageOf(Or(Or(Get(jr.value, "detail"), Get(jr.value, "error")),
                          JStr("Request failed with status ${response.status}"))),
             status, jr.value)))
    ELSE Returned(NormalizeUniversity(jr.value, universityName))

----------------------------------------------------------------------------
(* The frame of one invocation.                                            *)

Frame(op, name, encodeOk, timeout, retries) ==
    [op |-> op,              \* the operation invoked
     name |-> name,          \* universityName (searchUniversityReviews)
     encodeOk |-> encodeOk,  \* the file can be read and encoded (analyzeDocument)
     timeout |-> timeout,    \* fetchWithTimeout's timeout
     retries |-> retries,    \* fetchWithTimeout's retries
     pc |-> "init",          \* init, fetch, backoff, body, done
     attempt |-> 0,          \* the loop variable of fetchWithTimeout
     start |-> 0,            \* when the current attempt began
     status |-> 0,           \* response.status, once fetch has resolved
     body |-> 0,             \* the body received (an index of Bodies), once read
     sent |-> <<>>,          \* the requests handed to fetch
     hist |-> <<>>,          \* the attempts that have settled
     delays |-> <<>>,        \* the backoff delays requested
     ft |-> Pending,         \* the outcome of fetchWithTimeout
     out |-> Pending]        \* the outcome of the operation

\* the body of the request of operation op
RequestBody(fr) ==
    IF fr.op = "searchUniversityReviews" THEN trim(fr.name) ELSE <<>>

\* one loop iteration up to `await fetch(...)`
BeginAttempt(fr) ==
    [fr EXCEPT !.pc = "fetch", !.start = now,
               !.sent = Append(@, [attempt |-> fr.attempt, at |-> now,
                                   body |-> RequestBody(fr)])]

NoError == JsError("none", "")

\* the fetch of the current attempt settles: resolved, rejected or aborted
Settled(fr, outcome, error) ==
    [fr EXCEPT !.hist = Append(@, [attempt |-> fr.attempt, start |-> fr.start,
                                   end |-> now, outcome |-> outcome,
                                   error |-> error])]

\* fetchWithTimeout throws `error` into the try block of the operation
TransportThrows(fr, error) ==
    [fr EXCEPT !.pc = "done", !.ft = Thrown(error),
               !.out = Thrown(OpCatch(fr.op, error))]

\* the catch block of fetchWithTimeout, entered with `error`
CatchFrame(fr, error) ==
    IF IsLastAttempt(fr.attempt, fr.retries)
    THEN TransportThrows(fr, ExhaustError(error))
    ELSE [fr EXCEPT !.pc = "backoff",
                    !.delays = Append(@, [after |-> fr.attempt, at |-> now,
                                          ms |-> BackoffDelay(fr.attempt)])]

CatchTimers(fr, c) ==
    IF IsLastAttempt(fr.attempt, fr.retries) THEN {}
    ELSE {BackoffTimer(c, fr.attempt, now + BackoffDelay(fr.attempt))}

\* the operation's code between fetchWithTimeout's return and the body read
AfterResponse(fr) ==
    CASE fr.op = "fetchWithTimeout" ->
            [fr EXCEPT !.pc = "done", !.out = fr.ft]
      [] fr.op \in {"getHealth", "getStatus"} /\ ~Ok(fr.status) ->
            [fr EXCEPT !.pc = "done",
                       !.out = Thrown(OpCatch(fr.op, ApiError(
                           IF fr.op = "getHealth" THEN "Failed to connect to API"
                           ELSE "Failed to get server status", fr.status)))]
      [] OTHER -> [fr EXCEPT !.pc = "body"]

\* the operation's code from the settling of response.json() on
AfterBody(fr, body) ==
    CASE fr.op \in {"getHealth", "getStatus"} -> healthBody(fr.op, body)
      [] fr.op = "analyzeDocument" -> analyzeDocumentBody(fr.status, body)
      [] OTHER -> searchUniversityReviewsBody(fr.status, body, fr.name)

----------------------------------------------------------------------------
(* The environment: what the backend may answer and what the user types.   *)

HttpStatuses == {200, 404, 503}

SummaryValue ==
    JObj([total_claims |-> JNum(0), processing_time_seconds |-> JNum(1),
          document_name |-> JStr("doc.txt"), timestamp |-> JStr("t")])

Bodies ==
    << [k |-> "nonjson"],
       [k |-> "streamfail"],
       [k |-> "json", v |-> JNull],
       [k |-> "json", v |-> JObj(<<>>)],
       [k |-> "json", v |-> JObj([detail |-> JStr("Unsupported file")])],
       [k |-> "json", v |-> JObj([message |-> JStr("ok"), version |-> JStr("1.0")])],
       [k |-> "json", v |-> JObj([summary |-> SummaryValue, claims |-> JArr(<<>>)])],
       [k |-> "json", v |-> JObj([summary |-> SummaryValue])],
       [k |-> "json", v |-> JObj([claims |-> JArr(<<>>)])],
       [k |-> "json", v |-> JObj([summary |-> SummaryValue, claims |-> JObj(<<>>)])],
       [k |-> "json", v |-> JObj([search_status |-> JStr("no_data_found"),
                                  university_name |-> JStr("X")])],
       [k |-> "json", v |-> JObj([university_name |-> JStr("X")])],
       [k |-> "json", v |-> JObj([search_status |-> JStr("success"),
                                  university_name |-> JStr("X"),
                                  negative_reviews |-> JArr(<<JObj([content |-> JStr("r")])>>),
                                  review_summary |->
                                      JObj([total_negative_reviews |-> JNum(1)])])],
       [k |-> "json", v |-> JObj([university_name |-> JStr("X"),
                                  negative_reviews |-> JStr("n/a"),
                                  positive_reviews |-> JNull,
                                  sources |-> JObj(<<>>),
                                  review_summary |-> JNull,
                                  analysis_timestamp |-> JStr("t0")])],
       [k |-> "json", v |-> JObj([search_status |-> JStr("success"),
                                  positive_reviews |-> JArr(<<JObj([content |-> JStr("p")])>>),
                                  sources |-> JArr(<<JStr("http://s")>>),
                                  review_summary |->
                                      JObj([total_negative_reviews |-> JNum(0),
                                            total_positive_reviews |-> JNum(1),
                                            average_rating |-> JNum(4),
                                            common_complaints |-> JArr(<<>>),
                                            common_praises |-> JArr(<<JStr("faculty")>>)])])] >>

Chars == {" ", "a"}

RECURSIVE SeqsUpTo(_, _)
SeqsUpTo(S, n) ==
    IF n = 0 THEN {<<>>}
    ELSE LET shorter == SeqsUpTo(S, n - 1) IN
         shorter \cup {Append(s, x) : s \in shorter, x \in S}

Names == SeqsUpTo(Chars, MaxNameLen)

InitialFrames ==
    {Frame(op, <<>>, TRUE, HEALTH_TIMEOUT, HEALTH_RETRIES) :
        op \in {"getHealth", "getStatus"}}
    \cup {Frame("analyzeDocument", <<>>, e, FETCH_TIMEOUT, MAX_RETRIES) :
        e \in BOOLEAN}
    \cup {Frame("searchUniversityReviews", n, TRUE, UNIVERSITY_TIMEOUT, MAX_RETRIES) :
        n \in Names}
    \cup {Frame("fetchWithTimeout", <<>>, TRUE, HEALTH_TIMEOUT, r) :
        r \in 0..MaxRetriesArg}

----------------------------------------------------------------------------
(* The pages before anything has happened on them.                         *)

\* localStorage.getItem of a key that was never set
NoItem == JNull

\* the upload page as mounted: no file listed, no analysis in flight
UploadIdle ==
    [files |-> <<>>,        \* uploadedFiles
     awaiting |-> {},       \* the ids whose analyzeDocument call is pending
     nextId |-> 1,          \* the next fileId
     submitted |-> <<>>,    \* every file handed to handleFiles, with its id
     invoked |-> <<>>,      \* the ids analyzeDocument was called for
     completed |-> <<>>]    \* the analyses that succeeded, in order

\* the reports page before its first render
ReportsIdle ==
    [pc |-> "unmounted", isLoading |-> TRUE, analysisResult |-> JNull,
     route |-> "/reports", view |-> "none", stats |-> Undefined]

\* checkBackendHealth not called
HealthIdle ==
    [pc |-> "idle",                \* idle, getHealth, getStatus, done
     healthResponse |-> Undefined, \* what getHealth returned
     out |-> Pending,              \* the outcome of checkBackendHealth
     backendStatus |-> ""]         \* the page's liveness indicator

AppIdle ==
    /\ upload = UploadIdle
    /\ storage = NoItem
    /\ reports = ReportsIdle
    /\ health = HealthIdle

----------------------------------------------------------------------------
(* Actions.                                                                *)

\* searchUniversityReviews without its length test
searchPreflight_NoLengthTest(universityName) ==
    IF trim(universityName) = <<>>
    THEN ApiError("University name is required", 400)
    ELSE NoError

\* the tests searchUniversityReviews makes on its argument before the try
\* block: the error it throws, NoError when the name passes
searchPreflight(universityName) ==
    IF trim(universityName) = <<>>
    THEN ApiError("University name is required", 400)
    ELSE IF Len(universityName) < MIN_NAME_LENGTH
    THEN ApiError("University name must be at least 3 characters long", 400)
    ELSE NoError

\* the operation is called and runs up to its first await of the network
Invoke(c) ==
    LET fr == call[c] IN
    /\ fr.pc = "init"
    /\ IF fr.op = "searchUniversityReviews" /\ searchPreflight(fr.name) # NoError
       THEN /\ call' = [call EXCEPT ![c] = [fr EXCEPT !.pc = "done",
                   !.out = Thrown(searchPreflight(fr.name))]]
            /\ UNCHANGED timers
       ELSE IF fr.op = "analyzeDocument" /\ ~fr.encodeOk
       THEN /\ call' = [call EXCEPT ![c] = [fr EXCEPT !.pc = "done",
                   !.out = Thrown(analyzeDocumentCatch(
                       JsError("RangeError", "Maximum call stack size exceeded")))]]
            /\ UNCHANGED timers
       ELSE /\ call' = [call EXCEPT ![c] = BeginAttempt(fr)]
            /\ timers' = timers \cup {DeadlineTimer(c, fr.attempt, now + fr.timeout)}
    /\ UNCHANGED <<now, aborted, mapVars, valVars, appVars>>

\* a response with an error status handled as a failed attempt
Responded_ErrorStatusFails(fr, status) ==
    IF Ok(status)
    THEN AfterResponse(
             [Settled(fr, "resolved", NoError) EXCEPT
                 !.status = status,
                 !.ft = Returned([status |-> status, attempt |-> fr.attempt])])
    ELSE CatchFrame([Settled(fr, "rejected", ApiError("HTTP error", status))
                        EXCEPT !.status = status],
                    ApiError("HTTP error", status))

\* the frame after `await fetch` has given a response of this status:
\* fetchWithTimeout returns it, whatever the status
Responded(fr, status) ==
    AfterResponse(
        [Settled(fr, "resolved", NoError) EXCEPT
            !.status = status,
            !.ft = Returned([status |-> status, attempt |-> fr.attempt])])

\* fetch resolves with a response: clearTimeout, return response
FetchResolve(c) ==
    LET fr == call[c] IN
    /\ fr.pc = "fetch"
    /\ \E status \in HttpStatuses :
          call' = [call EXCEPT ![c] = Responded(fr, status)]
    /\ timers' = timers \ {DeadlineTimer(c, fr.attempt, fr.start + fr.timeout)}
    /\ UNCHANGED <<now, aborted, mapVars, valVars, appVars>>

\* fetch rejects with a network error: the catch block runs
FetchReject(c) ==
    LET fr == call[c] IN
    /\ fr.pc = "fetch"
    /\ \E message \in NetworkErrorMessages :
          call' = [call EXCEPT ![c] =
                      CatchFrame(Settled(fr, "rejected", NetworkError(message)),
                                 NetworkError(message))]
    /\ timers' = timers \cup CatchTimers(fr, c)
    /\ UNCHANGED <<now, aborted, mapVars, valVars, appVars>>

\* a deadline timer fires: controller.abort(); a fetch listening to that
\* controller's signal rejects with an AbortError and the catch block runs
DeadlineFire(t) ==
    LET target == AbortTarget(t)
        c == target[1]
        fr == call[c]
        hit == fr.pc = "fetch" /\ fr.attempt = target[2]
    IN
    /\ t \in timers /\ t.kind = "deadline" /\ t.due <= now
    /\ aborted' = aborted \cup {target}
    /\ IF hit
       THEN /\ call' = [call EXCEPT ![c] =
                           CatchFrame(Settled(fr, "aborted", AbortError), AbortError)]
            /\ timers' = (timers \ {t}) \cup CatchTimers(fr, c)
       ELSE /\ timers' = timers \ {t}
            /\ UNCHANGED call
    /\ UNCHANGED <<now, mapVars, valVars, appVars>>

\* the backoff timer fires: attempt++, and the loop goes on or falls through
BackoffFire(t) ==
    LET c == t.call
        fr == [call[c] EXCEPT !.attempt = @ + 1]
    IN
    /\ t \in timers /\ t.kind = "backoff" /\ t.due <= now
    /\ IF LoopCond(fr.attempt, fr.retries)
       THEN /\ call' = [call EXCEPT ![c] = BeginAttempt(fr)]
            /\ timers' = (timers \ {t})
                             \cup {DeadlineTimer(c, fr.attempt, now + fr.timeout)}
       ELSE /\ call' = [call EXCEPT ![c] = TransportThrows(fr, MaxRetriesError)]
            /\ timers' = timers \ {t}
    /\ UNCHANGED <<now, aborted, mapVars, valVars, appVars>>

\* response.json() settles and the operation finishes
BodySettle(c) ==
    LET fr == call[c] IN
    /\ fr.pc = "body"
    /\ \E i \in 1..Len(Bodies) :
          call' = [call EXCEPT ![c] =
                      [fr EXCEPT !.pc = "done", !.body = i,
                                 !.out = AfterBody(fr, Bodies[i])]]
    /\ UNCHANGED <<now, timers, aborted, mapVars, valVars, appVars>>

NextDue == CHOOSE d \in {t.due : t \in timers} : \A t \in timers : d <= t.due

\* time passes, up to the next due timer or to shortly before it
Tick ==
    /\ timers # {}
    /\ \A t \in timers : t.due > now
    /\ now' \in {NextDue} \cup {d \in {NextDue - Early} : d > now}
    /\ UNCHANGED <<timers, aborted, call, mapVars, valVars, appVars>>

Calls == {1}

Init ==
    /\ now = 0
    /\ timers = {}
    /\ aborted = {}
    /\ call \in [Calls -> InitialFrames]
    /\ mapIn = Undefined
    /\ mapOut = Pending
    /\ fileIn = Undefined
    /\ fileOut = Pending
    /\ nameIn = Undefined
    /\ nameOut = Pending
    /\ AppIdle

Next ==
    \/ \E c \in Calls : Invoke(c)
    \/ \E c \in Calls : FetchResolve(c)
    \/ \E c \in Calls : FetchReject(c)
    \/ \E c \in Calls : BodySettle(c)
    \/ \E t \in timers : DeadlineFire(t)
    \/ \E t \in timers : BackoffFire(t)
    \/ Tick

Spec == Init /\ [][Next]_vars

----------------------------------------------------------------------------
(* Response normaliser: mapApiResponseToFrontend.                          *)

\* a template literal: its text and the values substituted into it
Template(text, value) == [t |-> "str", s |-> text, arg |-> value]

\* the properties every object literal inherits from Object.prototype
ObjectPrototypeKeys ==
    {"constructor", "toString", "valueOf", "hasOwnProperty", "__proto__"}

\* map[key] for an object literal `map` and a key taken from the payload
Lookup(map, key) ==
    IF key.t = "str" /\ key.s \in DOMAIN map THEN map[key.s]
    ELSE IF key.t = "str" /\ key.s \in ObjectPrototypeKeys THEN [t |-> "function"]
    ELSE Undefined

consistencyMap ==
    [Confirmed |-> JStr("Supported"),
     Supported |-> JStr("Supported"),
     Contradicted |-> JStr("Contradicted"),
     Unverifiable |-> JStr("Unverifiable"),
     Unsupported |-> JStr("Unsupported")]

\* the table of fallback scores; u16 is a value of Math.floor(Math.random() * 16)
\* and u21 one of Math.floor(Math.random() * 21)
trustScoreMap(u16, u21) ==
    [Confirmed |-> JNum(u16 + 80),
     Supported |-> JNum(u16 + 75),
     Contradicted |-> JNum(u21 + 10),
     Unverifiable |-> JNum(u21 + 40),
     Unsupported |-> JNum(u21 + 25)]

\* the backend's score is used when it is a number and truthy
UsesBackendScore(apiClaim) ==
    LET ts == Get(apiClaim, "trustScore") IN Truthy(ts) /\ ts.t = "num"

mapTrustScore(apiClaim, u) ==
    IF UsesBackendScore(apiClaim) THEN Get(apiClaim, "trustScore")
    ELSE Or(Lookup(trustScoreMap(u, u), Get(apiClaim, "verdict")), JNum(50))

\* the element of the evidence list made from one web-evidence record
mapWebEvidence(webEv, index, webIndex) ==
    JObj([id |-> Template("evidence-${index}-web-${webIndex}", <<index, webIndex>>),
          text |-> Get(webEv, "snippet"),
          source |-> Get(webEv, "title"),
          url |-> Or(Get(webEv, "url"), JStr("#")),
          relevanceScore |-> Or(Get(webEv, "relevance_score"), JNum(75))])

\* the array kept whole
Slice3_All(a) == a

\* array.slice(0, 3)
Slice3(a) == SubSeq(a, 1, IF Len(a) < 3 THEN Len(a) ELSE 3)

mapEvidence(apiClaim, index) ==
    LET we == Get(apiClaim, "web_evidence")
        first == JObj([id |-> Template("evidence-${index}-1", <<index>>),
                       text |-> Get(apiClaim, "evidence_summary"),
                       source |-> Get(Get(apiClaim, "metadata"), "source"),
                       url |-> JStr("#"),
                       relevanceScore |-> JNum(85)])
    IN
    IF Truthy(we) /\ IsArray(we)
    THEN <<first>> \o [w \in 1..Len(Slice3(we.a)) |->
                           mapWebEvidence(we.a[w], index, w - 1)]
    ELSE <<first>>

\* (apiClaim.metadata.source_chunk_id || 0) + 1
mapPageNumber(apiClaim) ==
    LET v == Or(Get(Get(apiClaim, "metadata"), "source_chunk_id"), JNum(0)) IN
    IF v.t = "num" THEN JNum(v.n + 1) ELSE Template("${source_chunk_id}1", v)

\* the callback of claims.map giving every claim the id of the first
mapClaim_SameId(apiClaim, index, u) ==
    JObj([id |-> Template("claim-${index}", <<0>>),
          text |-> Get(apiClaim, "claim_text"),
          category |-> Get(apiClaim, "category"),
          consistency |->
              Or(Lookup(consistencyMap, Get(apiClaim, "verdict")), JStr("Unverifiable")),
          trustScore |-> mapTrustScore(apiClaim, u),
          explanation |-> Get(apiClaim, "verdict_reasoning"),
          evidence |-> JArr(mapEvidence(apiClaim, index)),
          pageNumber |-> mapPageNumber(apiClaim),
          reviewStatus |-> JStr("pending")])

\* the callback of claims.map; index counts from 0
mapClaim(apiClaim, index, u) ==
    JObj([id |-> Template("claim-${index}", <<index>>),
          text |-> Get(apiClaim, "claim_text"),
          category |-> Get(apiClaim, "category"),
          consistency |->
              Or(Lookup(consistencyMap, Get(apiClaim, "verdict")), JStr("Unverifiable")),
          trustScore |-> mapTrustScore(apiClaim, u),
          explanation |-> Get(apiClaim, "verdict_reasoning"),
          evidence |-> JArr(mapEvidence(apiClaim, index)),
          pageNumber |-> mapPageNumber(apiClaim),
          reviewStatus |-> JStr("pending")])

\* the callback throws a TypeError when it reads a property of null or
\* undefined: the claim itself, its metadata, or a web-evidence record
ClaimReadable(apiClaim) ==
    LET we == Get(apiClaim, "web_evidence") IN
    /\ CanRead(apiClaim)
    /\ CanRead(Get(apiClaim, "metadata"))
    /\ (Truthy(we) /\ IsArray(we)) =>
           \A w \in 1..Len(Slice3(we.a)) : CanRead(we.a[w])

\* typeof v === "object"
IsObjectType(v) == v.t \in {"obj", "arr", "null"}

\* mutant: a malformed payload is rejected with the Error Model's failure
MalformedError_ApiError(message) == ApiError(message, 500)

\* what the validation at the top of mapApiResponseToFrontend throws
MalformedError(message) == JsError("Error", message)

\* mapApiResponseToFrontend(apiResponse); draws[i] is the random number used
\* for the i-th claim
mapApiResponseToFrontend(apiResponse, draws) ==
    LET summary == Get(apiResponse, "summary")
        claims == Get(apiResponse, "claims")
    IN
    IF ~Truthy(apiResponse) \/ ~IsObjectType(apiResponse)
    THEN Thrown(MalformedError("Invalid API response: Response is not an object"))
    ELSE IF ~Truthy(summary)
    THEN Thrown(MalformedError("Invalid API response: Missing summary field"))
    ELSE IF ~Truthy(claims) \/ ~IsArray(claims)
    THEN Thrown(MalformedError("Invalid API response: Missing or invalid claims array"))
    ELSE IF \E i \in 1..Len(claims.a) : ~ClaimReadable(claims.a[i])
    THEN Thrown(NullReadError)
    ELSE Returned(JObj(
             [summary |->
                  JObj([totalClaims |-> Get(summary, "total_claims"),
                        processingTime |-> Get(summary, "processing_time_seconds"),
                        documentName |-> Get(summary, "document_name"),
                        timestamp |-> Get(summary, "timestamp"),
                        analysisMode |-> Get(summary, "analysis_mode")]),
              claims |-> JArr([i \in 1..Len(claims.a) |->
                                  mapClaim(claims.a[i], i - 1, draws[i])])]))

----------------------------------------------------------------------------
(* The normaliser applied to the payloads a backend may send.              *)

MaxClaims == 2          \* a payload has at most this many claims

RawClaim(verdict, extra) ==
    JObj(extra @@
         [claim_text |-> JStr("X"), category |-> JStr("Financial"),
          verdict |-> verdict, evidence_summary |-> JStr("E"),
          verdict_reasoning |-> JStr("R"), source_context |-> JStr("S"),
          metadata |-> JObj([source |-> JStr("doc"), source_chunk_id |-> JNum(0)])])

WebEvidence(extra) ==
    JObj(extra @@
         [title |-> JStr("T"), url |-> JStr("http://e"), snippet |-> JStr("s"),
          source_type |-> JStr("web")])

RawVerdicts ==
    {JStr("Confirmed"), JStr("Supported"), JStr("Contradicted"),
     JStr("Unverifiable"), JStr("Unsupported"), JStr("Pending"),
     JStr("constructor"), Undefined}

RawClaims ==
    {RawClaim(v, <<>>) : v \in RawVerdicts}
    \cup {RawClaim(JStr("Contradicted"), [trustScore |-> JNum(n)]) :
             n \in {0, 42, 150}}
    \cup {RawClaim(JStr("Supported"),
                   [web_evidence |-> JArr(<<
                       WebEvidence([snippet |-> JStr("s1"), relevance_score |-> JNum(90)]),
                       WebEvidence([snippet |-> JStr("s2")]),
                       WebEvidence([snippet |-> JStr("s3"), relevance_score |-> JNum(0)]),
                       WebEvidence([snippet |-> JStr("s4"), relevance_score |-> JNum(60)])
                       >>)]),
          RawClaim(JStr("Unverifiable"),
                   [web_evidence |-> JArr(<<
                       WebEvidence([snippet |-> JStr("s1"), relevance_score |-> JNum(20)])
                       >>)]),
          JNull}

MalformedPayloads ==
    {Undefined, JNull, JStr("<html>"), JObj(<<>>),
     JObj([summary |-> SummaryValue]),
     JObj([claims |-> JArr(<<>>)]),
     JObj([summary |-> SummaryValue, claims |-> JNull]),
     JObj([summary |-> SummaryValue, claims |-> JObj(<<>>)]),
     JObj([summary |-> SummaryValue, claims |-> JStr("none")])}

\* the claims that payloads of several claims are made of
RepeatedClaims ==
    {RawClaim(JStr("Confirmed"), [claim_text |-> JStr("A")]),
     RawClaim(JStr("Contradicted"),
              [claim_text |-> JStr("B"), trustScore |-> JNum(42)])}

Payloads ==
    MalformedPayloads
    \cup {JObj([summary |-> SummaryValue, claims |-> JArr(<<x>>)]) : x \in RawClaims}
    \cup {JObj([summary |-> SummaryValue, claims |-> JArr(a)]) :
             a \in SeqsUpTo(RepeatedClaims, MaxClaims)}

\* how many values the random number behind the score of a claim can take:
\* Math.floor(Math.random() * 16) for Confirmed and Supported,
\* Math.floor(Math.random() * 21) for the other verdicts of the table, and a
\* single one when no random number reaches the result
RandomRange(apiClaim) ==
    LET verdict == Get(apiClaim, "verdict") IN
    IF ~CanRead(apiClaim) \/ UsesBackendScore(apiClaim) THEN 1
    ELSE IF verdict.t = "str" /\ verdict.s \in {"Confirmed", "Supported"} THEN 16
    ELSE IF verdict.t = "str" /\ verdict.s \in DOMAIN consistencyMap THEN 21
    ELSE 1

\* the claims that claims.map visits, none for a payload rejected before it
ClaimsOf(apiResponse) ==
    LET claims == Get(apiResponse, "claims") IN
    IF IsArray(claims) THEN claims.a ELSE <<>>

Draws(apiResponse) ==
    LET a == ClaimsOf(apiResponse) IN
    {d \in [1..Len(a) -> 0..20] : \A i \in 1..Len(a) : d[i] < RandomRange(a[i])}

\* mapApiResponseToFrontend is called with the payload
Map ==
    /\ mapOut.st = "pending"
    /\ \E d \in Draws(mapIn) : mapOut' = mapApiResponseToFrontend(mapIn, d)
    /\ UNCHANGED <<mapIn, netVars, valVars, appVars>>

InitMap ==
    /\ now = 0
    /\ timers = {}
    /\ aborted = {}
    /\ call = <<>>
    /\ mapIn \in Payloads
    /\ mapOut = Pending
    /\ fileIn = Undefined
    /\ fileOut = Pending
    /\ nameIn = Undefined
    /\ nameOut = Pending
    /\ AppIdle

NextMap == Map

SpecMap == InitMap /\ [][NextMap]_vars

----------------------------------------------------------------------------
(* The file validator.                                                     *)

MAX_FILE_SIZE == 100 * 1024 * 1024

\* String.prototype.toLowerCase on the letters that file names are made of
LowerOf(ch) ==
    CASE ch = "P" -> "p" [] ch = "D" -> "d" [] ch = "F" -> "f"
      [] ch = "T" -> "t" [] ch = "X" -> "x" [] OTHER -> ch

\* the name left as it is
toLowerCase_Same(s) == s

toLowerCase(s) == [i \in 1..Len(s) |-> LowerOf(s[i])]

\* String.prototype.endsWith
endsWith(s, suffix) ==
    /\ Len(s) >= Len(suffix)
    /\ SubSeq(s, Len(s) - Len(suffix) + 1, Len(s)) = suffix

allowedTypes == {"application/pdf", "text/plain"}
allowedExtensions == {<<".", "p", "d", "f">>, <<".", "t", "x", "t">>}

\* validateFile(file): null, or the reason the file is refused
validateFile(file) ==
    LET hasValidType == file.type \in allowedTypes
        hasValidExtension ==
            \E ext \in allowedExtensions : endsWith(toLowerCase(file.name), ext)
    IN
    IF ~hasValidType /\ ~hasValidExtension
    THEN JStr("Invalid file type. Please upload PDF or TXT files only.")
    ELSE IF file.size > MAX_FILE_SIZE
    THEN JStr("File size too large. Please upload files smaller than 100MB.")
    ELSE IF file.size = 0
    THEN JStr("File is empty. Please upload a file with content.")
    ELSE JNull

\* the files a user may pick
FileNames ==
    {<<"r", "e", "p", "o", "r", "t", ".", "P", "D", "F">>,
     <<"r", "e", "p", "o", "r", "t", ".", "p", "d", "f">>,
     <<"n", "o", "t", "e", "s", ".", "t", "x", "t">>,
     <<"n", "o", "t", "e", "s", ".", "T", "x", "T">>,
     <<".", "p", "d", "f">>,
     <<"p", "d", "f">>,
     <<"a", ".", "p", "d", "f", ".", "e", "x", "e">>,
     <<"a", ".", "p", "d">>,
     <<"d", "o", "c">>,
     <<>>}

FileTypes == {"application/pdf", "text/plain", "", "image/png"}

FileSizes ==
    {0, 1, 3 * 1024 * 1024, MAX_FILE_SIZE - 1, MAX_FILE_SIZE, MAX_FILE_SIZE + 1,
     101 * 1024 * 1024}

Files == [type : FileTypes, name : FileNames, size : FileSizes]

\* validateFile is called with the file
Validate ==
    /\ fileOut.st = "pending"
    /\ fileOut' = Returned(validateFile(fileIn))
    /\ UNCHANGED <<fileIn, nameIn, nameOut, netVars, mapVars, appVars>>

InitValidate ==
    /\ now = 0
    /\ timers = {}
    /\ aborted = {}
    /\ call = <<>>
    /\ mapIn = Undefined
    /\ mapOut = Pending
    /\ fileIn \in Files
    /\ fileOut = Pending
    /\ nameIn = Undefined
    /\ nameOut = Pending
    /\ AppIdle

NextValidate == Validate

SpecValidate == InitValidate /\ [][NextValidate]_vars

----------------------------------------------------------------------------
(* The university-name validator.                                          *)

MAX_NAME_LENGTH == 200

Letters ==
    {"a", "b", "c", "d", "e", "f", "g", "h", "i", "j", "k", "l", "m", "n", "o",
     "p", "q", "r", "s", "t", "u", "v", "w", "x", "y", "z",
     "A", "B", "C", "D", "E", "F", "G", "H", "I", "J", "K", "L", "M", "N", "O",
     "P", "Q", "R", "S", "T", "U", "V", "W", "X", "Y", "Z"}
Digits == {"0", "1", "2", "3", "4", "5", "6", "7", "8", "9"}

\* the class [a-zA-Z0-9\s\-\.\,\&\(\)\'\"] with white space limited to the
\* space character
NameClass_SpaceOnly ==
    Letters \cup Digits \cup {" "} \cup {"-", ".", ",", "&", "(", ")", "'", "\""}

\* the class [a-zA-Z0-9\s\-\.\,\&\(\)\'\"]
NameClass ==
    Letters \cup Digits \cup WhiteSpace \cup {"-", ".", ",", "&", "(", ")", "'", "\""}

\* /^[...]+$/.test(s)
MatchesNameClass(s) == s # <<>> /\ \A i \in 1..Len(s) : s[i] \in NameClass

\* validateUniversityName(name): null, or the reason the name is refused
validateUniversityName(name) ==
    IF ~Truthy(name) \/ name.t # "chars"
    THEN JStr("University name is required")
    ELSE LET trimmed == trim(name.c) IN
         IF Len(trimmed) < MIN_NAME_LENGTH
         THEN JStr("University name must be at least 3 characters long")
         ELSE IF Len(trimmed) > MAX_NAME_LENGTH
         THEN JStr("University name is too long")
         ELSE IF ~MatchesNameClass(trimmed)
         THEN JStr("University name contains invalid characters")
         ELSE JNull

\* the characters typed names are made of
NameChars == {" ", "\t", "a", "<"}

\* n times the letter a
Repeat(n) == [i \in 1..n |-> "a"]

\* the values validateUniversityName is called with
NameInputs ==
    {Undefined, JNull, JNum(0), JNum(42), JObj(<<>>)}
    \cup {JChars(s) : s \in SeqsUpTo(NameChars, MaxNameLen)}
    \cup {JChars(s) : s \in
            {<<"I", "I", "T">>, <<"I", "T">>, <<" ", "I", "T", " ">>,
             <<" ", "\t", "I", "I", "T", "\n">>,
             <<"I", "I", "T", "\n", "D", "e", "l", "h", "i">>,
             <<"O", "'", "B", "r", "i", "e", "n", " ", "&", " ", "S", "o", "n", "s",
               " ", "(", "I", "n", "t", "l", ".", ")">>,
             <<"T", "e", "s", "t", "<", "s", "c", "r", "i", "p", "t", ">">>,
             <<"S", "t", ".", " ", "X", "-", "2", ",", " ", "\"", "B", "\"">>,
             Repeat(MAX_NAME_LENGTH), Repeat(MAX_NAME_LENGTH + 1),
             <<" ">> \o Repeat(MAX_NAME_LENGTH) \o <<" ">>}}

\* validateUniversityName is called with the value
ValidateName ==
    /\ nameOut.st = "pending"
    /\ nameOut' = Returned(validateUniversityName(nameIn))
    /\ UNCHANGED <<nameIn, fileIn, fileOut, netVars, mapVars, appVars>>

InitName ==
    /\ now = 0
    /\ timers = {}
    /\ aborted = {}
    /\ call = <<>>
    /\ mapIn = Undefined
    /\ mapOut = Pending
    /\ fileIn = Undefined
    /\ fileOut = Pending
    /\ nameIn \in NameInputs
    /\ nameOut = Pending
    /\ AppIdle

NextName == ValidateName

SpecName == InitName /\ [][NextName]_vars

----------------------------------------------------------------------------
(* The upload page (app/upload/page.tsx).                                  *)

MaxFiles == 3           \* files submitted in one visit of the page
MaxBatch == 2           \* files of one FileList

\* JSON.stringify: the document written for a value.  A property whose value
\* is undefined or a function is left out, such an array element becomes null
RECURSIVE Stringify(_)
Stringify(v) ==
    IF v.t = "obj"
    THEN JObj([k \in {x \in DOMAIN v.f : v.f[x].t \notin {"undefined", "function"}} |->
                  Stringify(v.f[k])])
    ELSE IF v.t = "arr"
    THEN JArr([i \in 1..Len(v.a) |->
                  IF v.a[i].t \in {"undefined", "function"} THEN JNull
                  ELSE Stringify(v.a[i])])
    ELSE IF v.t = "str" THEN JStr(v.s)
    ELSE v

\* what localStorage has under the key: the empty string, a string that is
\* not JSON, the string JSON.stringify makes of a value, or ("blocked") a
\* storage the browser refuses to read
Text(k) == [t |-> "text", k |-> k]

\* the item is written only while the key is unset
StoredText_KeepFirst(v) ==
    IF storage = JNull THEN [t |-> "text", k |-> "json", v |-> Stringify(v)]
    ELSE storage

StoredText(v) == [t |-> "text", k |-> "json", v |-> Stringify(v)]

\* the message uploadAndAnalyzeFile's catch block shows
uploadErrorMessage(error) ==
    IF IsApiError(error)
    THEN CASE error.status = 400 ->
                  "Invalid file type. Please upload PDF or TXT files only."
           [] error.status = 500 ->
                  "Server error during processing. Please try again later."
           [] OTHER -> error.message
    ELSE IF error.type \in {"Error", "TypeError", "SyntaxError", "RangeError",
                            "QuotaExceededError"}
    THEN "Error: ${error.message}"
    ELSE "Upload failed. Please try again."

\* every file is uploaded, whatever validateFile says
startsUpload_Always(file) == TRUE

\* handleFiles starts the upload of a file when validateFile returns no error
startsUpload(file) == ~Truthy(validateFile(file))

\* the entry handleFiles adds to the list for a file
newEntry(file, id) ==
    IF startsUpload(file)
    THEN [id |-> id, file |-> file, status |-> "uploading", progress |-> 0,
          error |-> Undefined, analysisResult |-> Undefined]
    ELSE [id |-> id, file |-> file, status |-> "error", progress |-> 0,
          error |-> validateFile(file), analysisResult |-> Undefined]

\* prev.map((f) => (f.id === fileId ? { ...f, ...changes } : f))
updateEntry(files, fileId, changes) ==
    [i \in 1..Len(files) |->
        IF files[i].id = fileId
        THEN [k \in DOMAIN files[i] |->
                 IF k \in DOMAIN changes THEN changes[k] ELSE files[i][k]]
        ELSE files[i]]

\* prev.filter((f) => f.id !== fileId)
RECURSIVE withoutEntry(_, _)
withoutEntry(files, fileId) ==
    IF files = <<>> THEN <<>>
    ELSE IF Head(files).id = fileId THEN withoutEntry(Tail(files), fileId)
    ELSE <<Head(files)>> \o withoutEntry(Tail(files), fileId)

\* the files a user may drop on the page
UploadFilePool ==
    {[type |-> "application/pdf", size |-> 3 * 1024 * 1024,
      name |-> <<"r", "e", "p", "o", "r", "t", ".", "p", "d", "f">>],
     [type |-> "image/png", size |-> 1, name |-> <<"d", "o", "c">>],
     [type |-> "application/pdf", size |-> 0,
      name |-> <<"r", "e", "p", "o", "r", "t", ".", "p", "d", "f">>]}

\* the payloads the backend answers an analysis with
UploadPayloads ==
    {JObj([summary |-> SummaryValue, claims |-> JArr(a)]) :
        a \in {<<>>,
               <<RawClaim(JStr("Pending"), [claim_text |-> JStr("P")])>>,
               <<RawClaim(JStr("Contradicted"),
                          [claim_text |-> JStr("B"), trustScore |-> JNum(42)])>>,
               <<JNull>>}}

\* how a call of analyzeDocument may end
AnalyzeOutcomes ==
    {analyzeDocumentBody(200, [k |-> "json", v |-> p]) : p \in UploadPayloads}
    \cup {analyzeDocumentBody(st, [k |-> "json",
                                   v |-> JObj([detail |-> JStr("Unsupported file")])]) :
             st \in {400, 503}}
    \cup {Thrown(analyzeDocumentCatch(NetworkError("Failed to fetch"))),
          Thrown(analyzeDocumentCatch(ExhaustError(AbortError)))}

\* handleFiles(files): every file is validated and listed; the upload of the
\* accepted ones starts (uploadAndAnalyzeFile up to its await; its first
\* setUploadedFiles finds no entry of the file yet)
HandleFiles(fs) ==
    LET ids == [i \in 1..Len(fs) |-> upload.nextId + i - 1]
        newFiles == [i \in 1..Len(fs) |-> newEntry(fs[i], ids[i])]
        started == {i \in 1..Len(fs) : startsUpload(fs[i])}
    IN
    /\ upload.nextId + Len(fs) - 1 <= MaxFiles
    /\ upload' = [upload EXCEPT
           !.files = @ \o newFiles,
           !.awaiting = @ \cup {ids[i] : i \in started},
           !.nextId = @ + Len(fs),
           !.submitted = @ \o [i \in 1..Len(fs) |-> [id |-> ids[i], file |-> fs[i]]],
           !.invoked = @ \o [j \in 1..Cardinality(started) |->
                                ids[CHOOSE i \in started :
                                        Cardinality({x \in started : x < i}) = j - 1]]]
    /\ UNCHANGED <<storage, reports, health, netVars, mapVars, valVars>>

\* the rest of uploadAndAnalyzeFile(fileId, file), once analyzeDocument has
\* settled with `outcome`; `draws` are the mapper's random numbers and `full`
\* tells that localStorage refuses the item
AnalysisSettles(fileId, outcome, draws, full) ==
    LET mapped == mapApiResponseToFrontend(outcome.value, draws)
        failure == IF outcome.st = "thrown" THEN outcome.error
                   ELSE IF mapped.st = "thrown" THEN mapped.error
                   ELSE IF full
                   THEN JsError("QuotaExceededError", "The quota has been exceeded.")
                   ELSE NoError
    IN
    /\ fileId \in upload.awaiting
    /\ IF failure # NoError
       THEN /\ upload' = [upload EXCEPT
                   !.awaiting = @ \ {fileId},
                   !.files = updateEntry(@, fileId,
                       [status |-> "error", progress |-> 0,
                        error |-> JStr(uploadErrorMessage(failure))])]
            /\ UNCHANGED storage
       ELSE /\ storage' = StoredText(mapped.value)
            /\ upload' = [upload EXCEPT
                   !.awaiting = @ \ {fileId},
                   !.files = updateEntry(@, fileId,
                       [status |-> "success", progress |-> 100,
                        analysisResult |-> mapped.value]),
                   !.completed = Append(@, [id |-> fileId, result |-> mapped.value])]
    /\ UNCHANGED <<reports, health, netVars, mapVars, valVars>>

\* removeFile(fileId)
RemoveFile(fileId) ==
    /\ \E i \in 1..Len(upload.files) : upload.files[i].id = fileId
    /\ upload' = [upload EXCEPT !.files = withoutEntry(@, fileId)]
    /\ UNCHANGED <<storage, reports, health, netVars, mapVars, valVars>>

InitUpload ==
    /\ now = 0
    /\ timers = {}
    /\ aborted = {}
    /\ call = <<>>
    /\ mapIn = Undefined
    /\ mapOut = Pending
    /\ fileIn = Undefined
    /\ fileOut = Pending
    /\ nameIn = Undefined
    /\ nameOut = Pending
    /\ upload = UploadIdle
    /\ storage = NoItem
    /\ reports = ReportsIdle
    /\ health = HealthIdle

NextUpload ==
    \/ \E fs \in SeqsUpTo(UploadFilePool, MaxBatch) \ {<<>>} : HandleFiles(fs)
    \/ \E id \in upload.awaiting, o \in AnalyzeOutcomes, full \in BOOLEAN :
           \E d \in (IF o.st = "returned" THEN Draws(o.value) ELSE {<<>>}) :
               AnalysisSettles(id, o, d, full)
    \/ \E id \in 1..MaxFiles : RemoveFile(id)

SpecUpload == InitUpload /\ [][NextUpload]_vars

----------------------------------------------------------------------------
(* The reports page (app/reports/page.tsx).                                *)

\* the number NaN
NaN == [t |-> "nan"]

\* localStorage.getItem('analysisResult'): the value read, or the exception of
\* a browser that denies access to the storage
getItem(item) ==
    IF item.t = "null" THEN Returned(JNull)
    ELSE IF item.k = "blocked"
    THEN Thrown(JsError("SecurityError", "The operation is insecure."))
    ELSE Returned(item)

\* if (storedResult): a string is truthy unless it is empty
TruthyText(item) == item.t # "null" /\ item.k # "empty"

\* JSON.parse(text)
JSONparse(text) ==
    IF text.k = "json" THEN Returned(text.v)
    ELSE Thrown(JsError("SyntaxError", "Unexpected token in JSON"))

\* a + b of JavaScript for the operands the statistics meet: numbers, NaN
\* and a missing score
Plus(a, b) == IF a.t = "num" /\ b.t = "num" THEN JNum(a.n + b.n) ELSE NaN

RECURSIVE SumScores(_)
\* claims.reduce((sum, claim) => sum + claim.trustScore, 0)
SumScores(claims) ==
    IF claims = <<>> THEN JNum(0)
    ELSE Plus(SumScores(SubSeq(claims, 1, Len(claims) - 1)),
              Get(claims[Len(claims)], "trustScore"))

\* Math.round(sum / length) for a sum that is not negative: 0 / 0 is NaN
RoundedAverage(sum, length) ==
    IF sum.t # "num" \/ length = 0 THEN NaN
    ELSE JNum((2 * sum.n + length) \div (2 * length))

\* claims.filter(c => c.consistency === value).length
CountOf(claims, value) ==
    Cardinality({i \in 1..Len(claims) : Get(claims[i], "consistency") = JStr(value)})

\* the reportStats object computed while rendering, or the TypeError of a
\* result that has no array of claims
reportStats(analysisResult) ==
    LET claims == Get(analysisResult, "claims") IN
    IF ~IsArray(claims) \/ \E i \in 1..Len(claims.a) : ~CanRead(claims.a[i])
    THEN Thrown(JsError("TypeError", "Cannot read properties of undefined"))
    ELSE Returned(
        [totalClaims |-> JNum(Len(claims.a)),
         supportedClaims |-> JNum(CountOf(claims.a, "Supported")),
         contradictedClaims |-> JNum(CountOf(claims.a, "Contradicted")),
         unverifiableClaims |-> JNum(CountOf(claims.a, "Unverifiable")),
         unsupportedClaims |-> JNum(CountOf(claims.a, "Unsupported")),
         averageTrustScore |-> RoundedAverage(SumScores(claims.a), Len(claims.a)),
         documentsAnalyzed |-> JNum(1)])

\* the page shows its content although no result was loaded
showsLoading_Never(page) == FALSE

\* if (isLoading || !analysisResult) return <loading view>
showsLoading(page) == page.isLoading \/ ~Truthy(page.analysisResult)

\* the component function runs: on mount, and again after a change of state
Render ==
    /\ reports.pc \in {"unmounted", "changed"}
    /\ reports' =
           IF showsLoading(reports)
           THEN [reports EXCEPT !.pc = IF reports.pc = "unmounted" THEN "mounted"
                                       ELSE "settled",
                                !.view = "loading"]
           ELSE LET stats == reportStats(reports.analysisResult) IN
                IF stats.st = "thrown"
                THEN [reports EXCEPT !.pc = "settled", !.view = "crashed"]
                ELSE [reports EXCEPT !.pc = "settled", !.view = "report",
                                     !.stats = stats.value]
    /\ UNCHANGED <<upload, storage, health, netVars, mapVars, valVars>>

\* the effect that loads the stored result, run after the first render
LoadEffect ==
    LET storedResult == getItem(storage)
        parsed == JSONparse(storedResult.value)
    IN
    /\ reports.pc = "mounted"
    /\ reports' =
           IF storedResult.st = "thrown" THEN
               [reports EXCEPT !.pc = "left", !.route = "/upload"]
           ELSE IF ~TruthyText(storedResult.value) THEN
               [reports EXCEPT !.pc = "left", !.route = "/upload"]
           ELSE IF parsed.st = "thrown" THEN
               [reports EXCEPT !.pc = "left", !.route = "/upload"]
           ELSE [reports EXCEPT !.pc = "changed", !.analysisResult = parsed.value,
                                !.isLoading = FALSE]
    /\ UNCHANGED <<upload, storage, health, netVars, mapVars, valVars>>

\* the results the upload page can store
PersistableResults ==
    {m.value : m \in {r \in {mapApiResponseToFrontend(p, d) :
                                 <<p, d>> \in {<<x, y>> \in Payloads \X
                                     UNION {Draws(z) : z \in Payloads} :
                                         y \in Draws(x)}} :
                          r.st = "returned"}}

\* what the storage may hold when the reports page is opened
StoredItems ==
    {NoItem, Text("empty"), Text("nonjson"), Text("blocked"),
     StoredText(JNull), StoredText(JNum(5)), StoredText(JObj(<<>>))}
    \cup {StoredText(r) : r \in PersistableResults}

InitReports ==
    /\ now = 0
    /\ timers = {}
    /\ aborted = {}
    /\ call = <<>>
    /\ mapIn = Undefined
    /\ mapOut = Pending
    /\ fileIn = Undefined
    /\ fileOut = Pending
    /\ nameIn = Undefined
    /\ nameOut = Pending
    /\ upload = UploadIdle
    /\ storage \in StoredItems
    /\ reports = ReportsIdle
    /\ health = HealthIdle

NextReports == Render \/ LoadEffect

SpecReports == InitReports /\ [][NextReports]_vars

----------------------------------------------------------------------------
(* Two endpoint-client calls in flight at once.                            *)

ConcurrentCalls == {1, 2}

\* the calls that run side by side: fetchWithTimeout as the health checks
\* call it, and without retries
ConcurrentFrames ==
    {Frame("fetchWithTimeout", <<>>, TRUE, HEALTH_TIMEOUT, r) :
        r \in {0, HEALTH_RETRIES}}

InitConcurrent ==
    /\ now = 0
    /\ timers = {}
    /\ aborted = {}
    /\ call \in [ConcurrentCalls -> ConcurrentFrames]
    /\ mapIn = Undefined
    /\ mapOut = Pending
    /\ fileIn = Undefined
    /\ fileOut = Pending
    /\ nameIn = Undefined
    /\ nameOut = Pending
    /\ AppIdle

NextConcurrent ==
    \/ \E c \in ConcurrentCalls : Invoke(c)
    \/ \E c \in ConcurrentCalls : FetchResolve(c)
    \/ \E c \in ConcurrentCalls : FetchReject(c)
    \/ \E t \in timers : DeadlineFire(t)
    \/ \E t \in timers : BackoffFire(t)
    \/ Tick

SpecConcurrent == InitConcurrent /\ [][NextConcurrent]_vars

----------------------------------------------------------------------------
(* Liveness indicator: checkBackendHealth and the effect that calls it.    *)

HealthStatus(isHealthy, message, version, error) ==
    [isHealthy |-> isHealthy, message |-> message, version |-> version,
     error |-> error]

\* the catch block of checkBackendHealth
checkBackendHealthCatch(error) ==
    IF IsApiError(error)
    THEN HealthStatus(FALSE,
                      Template("Backend error: ${error.message}", JStr(error.message)),
                      Undefined, JStr(error.message))
    ELSE HealthStatus(FALSE, JStr("Cannot connect to backend server"),
                      Undefined, JStr(error.message))

\* the return statement of the try block: the object literal reads
\* statusResponse.message, then healthResponse.version
checkBackendHealthReturn(healthResponse, statusResponse) ==
    IF ~CanRead(statusResponse) \/ ~CanRead(healthResponse)
    THEN checkBackendHealthCatch(NullReadError)
    ELSE HealthStatus(TRUE,
                      Template("Backend is healthy - ${statusResponse.message}",
                               Get(statusResponse, "message")),
                      Get(healthResponse, "version"), Undefined)

\* setBackendStatus(status.isHealthy ? "connected" : "disconnected")
backendStatusOf(status) == IF status.isHealthy THEN "connected" ELSE "disconnected"

\* checkBackendHealth resolves with status and the effect's callback runs
HealthResolved(status) ==
    [health EXCEPT !.pc = "done", !.out = Returned(status),
                   !.backendStatus = backendStatusOf(status)]

\* the page mounts: the effect calls checkBackendHealth, which calls getHealth
CheckBackendHealth ==
    /\ health.pc = "idle"
    /\ health' = [health EXCEPT !.pc = "getHealth"]
    /\ call' = Append(call, Frame("getHealth", <<>>, TRUE, HEALTH_TIMEOUT,
                                  HEALTH_RETRIES))
    /\ UNCHANGED <<now, timers, aborted, upload, storage, reports, mapVars, valVars>>

\* `await apiClient.getHealth()` settles: getStatus is called, or the catch
\* block runs
HealthSettles ==
    LET fr == call[Len(call)] IN
    /\ health.pc = "getHealth"
    /\ fr.pc = "done"
    /\ IF fr.out.st = "returned"
       THEN /\ health' = [health EXCEPT !.pc = "getStatus",
                                        !.healthResponse = fr.out.value]
            /\ call' = Append(call, Frame("getStatus", <<>>, TRUE, HEALTH_TIMEOUT,
                                          HEALTH_RETRIES))
       ELSE /\ health' = HealthResolved(checkBackendHealthCatch(fr.out.error))
            /\ UNCHANGED call
    /\ UNCHANGED <<now, timers, aborted, upload, storage, reports, mapVars, valVars>>

\* `await apiClient.getStatus()` settles: the status is returned, or the
\* catch block runs
StatusSettles ==
    LET fr == call[Len(call)] IN
    /\ health.pc = "getStatus"
    /\ fr.pc = "done"
    /\ health' = HealthResolved(
                    IF fr.out.st = "returned"
                    THEN checkBackendHealthReturn(health.healthResponse, fr.out.value)
                    ELSE checkBackendHealthCatch(fr.out.error))
    /\ UNCHANGED <<now, timers, aborted, call, upload, storage, reports, mapVars,
                   valVars>>

InitHealth ==
    /\ now = 0
    /\ timers = {}
    /\ aborted = {}
    /\ call = <<>>
    /\ mapIn = Undefined
    /\ mapOut = Pending
    /\ fileIn = Undefined
    /\ fileOut = Pending
    /\ nameIn = Undefined
    /\ nameOut = Pending
    /\ AppIdle

NextHealth ==
    \/ CheckBackendHealth
    \/ HealthSettles
    \/ StatusSettles
    \/ \E c \in DOMAIN call : Invoke(c)
    \/ \E c \in DOMAIN call : FetchResolve(c)
    \/ \E c \in DOMAIN call : FetchReject(c)
    \/ \E c \in DOMAIN call : BodySettle(c)
    \/ \E t \in timers : DeadlineFire(t)
    \/ \E t \in timers : BackoffFire(t)
    \/ Tick

SpecHealth == InitHealth /\ [][NextHealth]_vars

----------------------------------------------------------------------------
(* Properties of the transport.                                            *)

Failures == {"rejected", "aborted"}

\* C1: fetchWithTimeout makes at least 1 and at most retries+1 attempts; an
\* attempt after the first is made only after the previous one failed; the
\* call returns the response of the first attempt that resolves, and it
\* throws only after retries+1 failed attempts.
C1_Attempts ==
    \A c \in DOMAIN call :
        LET fr == call[c]
            n == Len(fr.sent)
            m == Len(fr.hist)
        IN
        /\ n <= fr.retries + 1
        /\ fr.ft.st # "pending" => n >= 1
        /\ m \in {n - 1, n}
        /\ \A i \in 1..n : fr.sent[i].attempt = i - 1
        /\ \A i \in 2..n : /\ fr.hist[i - 1].outcome \in Failures
                           /\ fr.hist[i - 1].end <= fr.sent[i].at
        /\ \A i \in 1..m : fr.hist[i].outcome = "resolved" =>
                               /\ i = n
                               /\ fr.ft.st = "returned"
                               /\ fr.ft.value.attempt = i - 1
        /\ fr.ft.st = "returned" => m = n /\ fr.hist[n].outcome = "resolved"
        /\ fr.ft.st = "thrown" =>
               /\ n = fr.retries + 1
               /\ m = n
               /\ \A i \in 1..m : fr.hist[i].outcome \in Failures

\* a call with retries = 2 whose first two attempts failed and whose third
\* attempt resolved
C1_Witness ==
    \E c \in DOMAIN call :
        LET fr == call[c] IN
        /\ fr.retries = 2
        /\ Len(fr.hist) = 3
        /\ fr.hist[1].outcome \in Failures
        /\ fr.hist[2].outcome \in Failures
        /\ fr.hist[3].outcome = "resolved"
        /\ fr.ft.st = "returned"
        /\ fr.ft.value.attempt = 2

\* C2 as stated: the delay waited before attempt k (1-indexed, k >= 2) is
\* 2^(k-1) seconds.
C2_DelayAsStated ==
    \A c \in DOMAIN call :
        \A k \in 2..Len(call[c].sent) :
            call[c].sent[k].at - call[c].hist[k - 1].end = (2 ^ (k - 1)) * 1000

\* C2 amended: the delay waited before attempt k (1-indexed, k >= 2) is
\* 2^(k-2) seconds (1 s before the second attempt, 2 s before the third);
\* exactly one delay is waited between two consecutive attempts and none
\* after the final failed attempt.
C2_Backoff ==
    \A c \in DOMAIN call :
        LET fr == call[c]
            n == Len(fr.sent)
            d == Len(fr.delays)
        IN
        /\ \A k \in 2..n :
               /\ fr.sent[k].at - fr.hist[k - 1].end = (2 ^ (k - 2)) * 1000
               /\ fr.delays[k - 1].ms = (2 ^ (k - 2)) * 1000
               /\ fr.delays[k - 1].after = k - 2
               /\ fr.delays[k - 1].at = fr.hist[k - 1].end
        /\ d = (IF fr.pc = "backoff" THEN n ELSE n - 1) \/ (n = 0 /\ d = 0)
        /\ fr.ft.st = "thrown" =>
               /\ d = fr.retries
               /\ ~ \E t \in timers : t.call = c /\ t.kind = "backoff"

\* a call that failed twice and succeeded on its third attempt, having
\* waited 1 s and then 2 s
C2_Witness ==
    \E c \in DOMAIN call :
        LET fr == call[c] IN
        /\ Len(fr.hist) = 3
        /\ fr.hist[3].outcome = "resolved"
        /\ Len(fr.delays) = 2
        /\ fr.sent[2].at - fr.hist[1].end = 1000
        /\ fr.sent[3].at - fr.hist[2].end = 2000

\* C3: when the last allowed attempt fails, fetchWithTimeout throws an
\* ApiError of status 408 if that attempt was aborted by its deadline, and
\* otherwise the failure of that attempt itself, whatever made the earlier
\* attempts fail.
C3_Exhausted ==
    \A c \in DOMAIN call :
        LET fr == call[c]
            last == fr.hist[Len(fr.hist)]
        IN
        fr.ft.st = "thrown" =>
            /\ Len(fr.hist) = fr.retries + 1
            /\ last.outcome = "aborted" =>
                   IsApiError(fr.ft.error) /\ fr.ft.error.status = 408
            /\ last.outcome = "rejected" =>
                   /\ fr.ft.error.type = "TypeError"
                   /\ fr.ft.error = last.error

\* retries exhausted by a network failure after an earlier timeout, and by
\* a timeout after an earlier network failure
C3_Witness ==
    \E c \in DOMAIN call :
        LET fr == call[c] IN
        /\ fr.ft.st = "thrown"
        /\ Len(fr.hist) = 2
        /\ fr.hist[1].outcome = "aborted"
        /\ fr.hist[2].outcome = "rejected"
        /\ ~IsApiError(fr.ft.error)

\* C4: every attempt has its own deadline, armed when it begins and due
\* `timeout` ms later; an attempt still in flight at its deadline is aborted
\* and ends as a timeout failure, and it is aborted by no other deadline.
C4_Deadline ==
    \A c \in DOMAIN call :
        LET fr == call[c] IN
        /\ fr.pc = "fetch" =>
               /\ DeadlineTimer(c, fr.attempt, fr.start + fr.timeout) \in timers
               /\ now <= fr.start + fr.timeout
               /\ <<c, fr.attempt>> \notin aborted
        /\ \A i \in 1..Len(fr.hist) :
               LET h == fr.hist[i] IN
               /\ h.end <= h.start + fr.timeout
               /\ h.outcome = "aborted" =>
                      /\ h.end = h.start + fr.timeout
                      /\ h.error.type = "AbortError"
                      /\ <<c, h.attempt>> \in aborted
               /\ h.outcome # "aborted" /\ <<c, h.attempt>> \in aborted =>
                      now >= h.start + fr.timeout

\* the deadline of a failed first attempt fired while the second attempt
\* was in flight, and the second attempt was later aborted by its own
C4_Witness ==
    \E c \in DOMAIN call :
        LET fr == call[c] IN
        /\ Len(fr.hist) >= 2
        /\ fr.hist[1].outcome = "rejected"
        /\ <<c, 0>> \in aborted
        /\ fr.hist[2].outcome = "aborted"
        /\ fr.hist[2].start < fr.hist[1].start + fr.timeout
        /\ fr.hist[2].end > fr.hist[1].start + fr.timeout

----------------------------------------------------------------------------
(* Properties of the endpoint client.                                      *)

EndpointOps ==
    {"getHealth", "getStatus", "analyzeDocument", "searchUniversityReviews"}

\* the body of the response has the top-level field `name`
HasField(body, name) ==
    body.k = "json" /\ body.v.t = "obj" /\ name \in DOMAIN body.v.f

\* C5: searchUniversityReviews, on a non-2xx response with a JSON body,
\* returns a normalised result carrying the body's search_status when the
\* body has one, and throws exactly when the status is non-2xx and the body
\* has no search_status.
C5_SoftFailure ==
    \A c \in DOMAIN call :
        LET fr == call[c]
            body == Bodies[fr.body]
        IN
        (fr.op = "searchUniversityReviews" /\ fr.body # 0 /\ body.k = "json") =>
            /\ (~Ok(fr.status) /\ HasField(body, "search_status")) =>
                   /\ fr.out.st = "returned"
                   /\ Get(fr.out.value, "search_status").s = body.v.f.search_status.s
            /\ ~Ok(fr.status) =>
                   (fr.out.st = "thrown" <=> ~HasField(body, "search_status"))
            /\ body.v.t = "obj" =>
                   (fr.out.st = "thrown" <=>
                        (~Ok(fr.status) /\ ~HasField(body, "search_status")))

\* HTTP 404 with body {search_status: "no_data_found", university_name: "X"}
\* has been answered with a result
C5_Witness ==
    \E c \in DOMAIN call :
        LET fr == call[c] IN
        /\ fr.op = "searchUniversityReviews"
        /\ fr.status = 404
        /\ fr.body # 0
        /\ HasField(Bodies[fr.body], "search_status")
        /\ Bodies[fr.body].v.f.search_status.s = "no_data_found"
        /\ fr.out.st = "returned"
        /\ Get(fr.out.value, "search_status").s = "no_data_found"

\* C6: every failure of an endpoint operation is an ApiError that carries a
\* message and a numeric status.
C6_OnlyApiErrors ==
    \A c \in DOMAIN call :
        LET fr == call[c] IN
        (fr.op \in EndpointOps /\ fr.out.st = "thrown") =>
            /\ IsApiError(fr.out.error)
            /\ "status" \in DOMAIN fr.out.error
            /\ fr.out.error.status \in Nat
            /\ fr.out.error.message # ""

\* a university search whose three attempts all failed with a TypeError
\* that no branch of its catch block recognises has thrown
C6_Witness ==
    \E c \in DOMAIN call :
        LET fr == call[c] IN
        /\ fr.op = "searchUniversityReviews"
        /\ fr.ft.st = "thrown"
        /\ fr.ft.error = NetworkError("Load failed")
        /\ fr.out.st = "thrown"

\* C7 as stated: a failure of an endpoint operation none of whose fetch
\* attempts got a response (each rejected with a network error) is an
\* ApiError of status 0.
C7_NoConnectionIsStatus0 ==
    \A c \in DOMAIN call :
        LET fr == call[c] IN
        (/\ fr.op \in EndpointOps
         /\ fr.out.st = "thrown"
         /\ fr.ft.st = "thrown"
         /\ \A i \in 1..Len(fr.hist) : fr.hist[i].outcome = "rejected") =>
            fr.out.error.status = 0

\* C8 as stated: a non-2xx response (for the university search: one whose
\* body has no search_status) makes the operation fail with an ApiError
\* whose status is the HTTP status, whether the body is valid JSON or not.
C8_HttpStatusKept ==
    \A c \in DOMAIN call :
        LET fr == call[c] IN
        (/\ fr.op \in EndpointOps
         /\ fr.pc = "done"
         /\ fr.ft.st = "returned"
         /\ ~Ok(fr.status)
         /\ fr.body # 0 => Bodies[fr.body].k \in {"json", "nonjson"}
         /\ ~(/\ fr.op = "searchUniversityReviews"
              /\ fr.body # 0
              /\ HasField(Bodies[fr.body], "search_status"))) =>
            /\ fr.out.st = "thrown"
            /\ IsApiError(fr.out.error)
            /\ fr.out.error.status = fr.status

\* C10: analyzeDocument fails with an ApiError of status 500, and returns
\* nothing, when a 2xx response has a JSON body without `summary` and
\* without `claims`.
C10_MalformedAnalysis ==
    \A c \in DOMAIN call :
        LET fr == call[c]
            body == Bodies[fr.body]
        IN
        (/\ fr.op = "analyzeDocument"
         /\ fr.body # 0
         /\ Ok(fr.status)
         /\ body.k = "json"
         /\ ~HasField(body, "summary")
         /\ ~HasField(body, "claims")) =>
            /\ fr.out.st = "thrown"
            /\ IsApiError(fr.out.error)
            /\ fr.out.error.status = 500

\* a 200 response with the body {} has been rejected
C10_Witness ==
    \E c \in DOMAIN call :
        LET fr == call[c] IN
        /\ fr.op = "analyzeDocument"
        /\ fr.status = 200
        /\ fr.body # 0
        /\ Bodies[fr.body] = [k |-> "json", v |-> JObj(<<>>)]
        /\ fr.out.st = "thrown"
        /\ fr.out.error.message = "Invalid response structure from backend"

----------------------------------------------------------------------------
(* Properties of the normaliser.                                           *)

\* C9 as stated: mapApiResponseToFrontend rejects a payload without
\* `summary`, without `claims`, or whose `claims` is not a sequence, with
\* the failure of the Error Model of status 500.
C9_MalformedIsStatus500 ==
    (/\ mapOut.st = "thrown"
     /\ mapIn.t = "obj"
     /\ \/ ~Truthy(Get(mapIn, "summary"))
        \/ ~Truthy(Get(mapIn, "claims"))
        \/ ~IsArray(Get(mapIn, "claims"))) =>
        /\ IsApiError(mapOut.error)
        /\ mapOut.error.status = 500

----------------------------------------------------------------------------
(* Properties of the university search's pre-flight tests.                 *)

\* C11: searchUniversityReviews called with a name that is empty, made of
\* white space only, or shorter than 3 characters fails with an ApiError of
\* status 400, and no request has been sent to the network.
C11_Preflight ==
    \A c \in DOMAIN call :
        LET fr == call[c] IN
        (/\ fr.op = "searchUniversityReviews"
         /\ fr.pc # "init"
         /\ \/ fr.name = <<>>
            \/ \A i \in 1..Len(fr.name) : fr.name[i] = " "
            \/ Len(fr.name) < 3) =>
            /\ fr.pc = "done"
            /\ fr.out.st = "thrown"
            /\ IsApiError(fr.out.error)
            /\ fr.out.error.status = 400
            /\ fr.sent = <<>>
            /\ fr.attempt = 0
            /\ timers = {}

\* a call with a name of two letters has been refused
C11_Witness ==
    \E c \in DOMAIN call :
        /\ call[c].op = "searchUniversityReviews"
        /\ call[c].name = <<"a", "a">>
        /\ call[c].out.st = "thrown"
        /\ call[c].out.error.status = 400
        /\ call[c].sent = <<>>

----------------------------------------------------------------------------
(* Properties of the normaliser.                                           *)

\* the raw claims of a payload that has a summary and an array of claims,
\* each claim an object with a metadata object and web-evidence records
\* that are objects
WellFormed(payload) ==
    /\ payload.t = "obj"
    /\ Truthy(Get(payload, "summary"))
    /\ Get(payload, "claims").t = "arr"
    /\ \A i \in 1..Len(payload.f.claims.a) :
           LET raw == payload.f.claims.a[i] IN
           /\ raw.t = "obj"
           /\ Get(raw, "metadata").t = "obj"
           /\ Get(raw, "web_evidence").t = "arr" =>
                  \A w \in 1..Len(raw.f.web_evidence.a) :
                      raw.f.web_evidence.a[w].t = "obj"

\* the mapper has returned the claims of a well-formed payload
Mapped == WellFormed(mapIn) /\ mapOut.st = "returned"

RawOf(i) == mapIn.f.claims.a[i]
ClaimOf(i) == mapOut.value.f.claims.a[i]
MappedIndexes == 1..Len(mapOut.value.f.claims.a)

\* C12: for every payload with a summary and an array of structurally valid
\* claims (possibly empty) the mapper succeeds; the claims it returns are as
\* many as the raw claims and in their order, each has a non-empty evidence
\* list, and no two of them have the same id.
C12_SameLengthAndOrder ==
    (WellFormed(mapIn) /\ mapOut.st # "pending") =>
        /\ mapOut.st = "returned"
        /\ Len(mapOut.value.f.claims.a) = Len(mapIn.f.claims.a)
        /\ \A i \in MappedIndexes :
               /\ ClaimOf(i).f.text = Get(RawOf(i), "claim_text")
               /\ ClaimOf(i).f.evidence.t = "arr"
               /\ Len(ClaimOf(i).f.evidence.a) >= 1
        /\ \A i, j \in MappedIndexes :
               i # j => ClaimOf(i).f.id # ClaimOf(j).f.id

\* two raw claims with different texts have been mapped
C12_Witness ==
    /\ Mapped
    /\ Len(mapOut.value.f.claims.a) = 2
    /\ ClaimOf(1).f.text = JStr("B")
    /\ ClaimOf(2).f.text = JStr("A")

ConsistencyValues == {"Supported", "Contradicted", "Unverifiable", "Unsupported"}

\* C13: a raw verdict Confirmed or Supported yields consistency Supported;
\* Contradicted, Unverifiable and Unsupported map to themselves; any other
\* raw verdict yields Unverifiable, so consistency is always one of the four
\* values.
C13_VerdictMapping ==
    Mapped =>
        \A i \in MappedIndexes :
            LET verdict == Get(RawOf(i), "verdict")
                consistency == ClaimOf(i).f.consistency
            IN
            /\ consistency.t = "str"
            /\ consistency.s \in ConsistencyValues
            /\ consistency.s =
                   IF verdict \in {JStr("Confirmed"), JStr("Supported")}
                   THEN "Supported"
                   ELSE IF verdict \in {JStr("Contradicted"), JStr("Unverifiable"),
                                        JStr("Unsupported")}
                   THEN verdict.s
                   ELSE "Unverifiable"

\* C14: a raw claim that supplies a numeric trustScore, 0 included, keeps it
\* unchanged; a score is made up only for a claim that supplies none.
C14_SuppliedScoreVerbatim ==
    Mapped =>
        \A i \in MappedIndexes :
            Get(RawOf(i), "trustScore").t = "num" =>
                ClaimOf(i).f.trustScore = Get(RawOf(i), "trustScore")

\* C15: every claim the mapper produces has a trustScore that is an integer
\* between 0 and 100, whether the score was made up or supplied by the payload.
C15_ScoreInRange ==
    Mapped =>
        \A i \in MappedIndexes :
            /\ ClaimOf(i).f.trustScore.t = "num"
            /\ ClaimOf(i).f.trustScore.n \in 0..100

\* the documented range of made-up scores of a raw verdict
ScoreRange(verdict) ==
    IF verdict = JStr("Confirmed") THEN 80..95
    ELSE IF verdict = JStr("Supported") THEN 75..90
    ELSE IF verdict = JStr("Contradicted") THEN 10..30
    ELSE IF verdict = JStr("Unverifiable") THEN 40..60
    ELSE IF verdict = JStr("Unsupported") THEN 25..45
    ELSE {50}

\* C16: the score made up for a raw claim without a numeric trustScore is an
\* integer of the range of its verdict (Confirmed 80-95, Supported 75-90,
\* Contradicted 10-30, Unverifiable 40-60, Unsupported 25-45), and 50 for
\* any unrecognized verdict.
C16_SynthesizedRanges ==
    Mapped =>
        \A i \in MappedIndexes :
            Get(RawOf(i), "trustScore").t # "num" =>
                /\ ClaimOf(i).f.trustScore.t = "num"
                /\ ClaimOf(i).f.trustScore.n \in ScoreRange(Get(RawOf(i), "verdict"))

\* the number of web-evidence records a raw claim carries
WebCount(raw) ==
    IF Get(raw, "web_evidence").t = "arr" THEN Len(raw.f.web_evidence.a) ELSE 0

\* C17: the evidence of every claim has 1 to 4 elements; the first is made
\* of the raw evidence summary, with the raw metadata.source as source,
\* relevance 85 and url "#"; the others are the first three raw web-evidence
\* records at most, in their order, and records after the third are dropped.
C17_EvidenceShape ==
    Mapped =>
        \A i \in MappedIndexes :
            LET raw == RawOf(i)
                ev == ClaimOf(i).f.evidence.a
                kept == IF WebCount(raw) < 3 THEN WebCount(raw) ELSE 3
            IN
            /\ Len(ev) \in 1..4
            /\ Len(ev) = 1 + kept
            /\ ev[1].f.text = Get(raw, "evidence_summary")
            /\ ev[1].f.source = Get(Get(raw, "metadata"), "source")
            /\ ev[1].f.relevanceScore = JNum(85)
            /\ ev[1].f.url = JStr("#")
            /\ \A w \in 1..kept :
                   /\ ev[w + 1].f.text = Get(raw.f.web_evidence.a[w], "snippet")
                   /\ ev[w + 1].f.source = Get(raw.f.web_evidence.a[w], "title")

\* a claim with four web-evidence records has been mapped to four elements
C17_Witness ==
    /\ Mapped
    /\ \E i \in MappedIndexes :
           /\ WebCount(RawOf(i)) = 4
           /\ Len(ClaimOf(i).f.evidence.a) = 4
           /\ ClaimOf(i).f.evidence.a[4].f.text = JStr("s3")

\* C18: an evidence element made from a web-evidence record carries the
\* record's own relevance score whenever the record supplies one, 0 included,
\* and 75 only when the record supplies none.
C18_OwnRelevance ==
    Mapped =>
        \A i \in MappedIndexes :
            LET raw == RawOf(i)
                ev == ClaimOf(i).f.evidence.a
            IN
            \A w \in 1..(Len(ev) - 1) :
                LET score == Get(raw.f.web_evidence.a[w], "relevance_score") IN
                ev[w + 1].f.relevanceScore = IF score.t = "num" THEN score ELSE JNum(75)

----------------------------------------------------------------------------
(* Properties of the university search's result.                           *)

SummaryCounts == {"total_negative_reviews", "total_positive_reviews", "average_rating"}
SummaryLists == {"common_complaints", "common_praises"}
Collections == {"negative_reviews", "positive_reviews", "sources"}

\* the raw field is missing (or null)
Absent(v) == v.t \in {"undefined", "null"}

\* C19: in every result searchUniversityReviews returns, negative_reviews,
\* positive_reviews and sources are sequences (empty when the raw value is
\* not a sequence), the counts and the average of review_summary are numbers
\* (0 when absent), its common_complaints and common_praises are lists (empty
\* when absent), search_status is "success" when absent and
\* analysis_timestamp is set when absent.
C19_DefaultsPresent ==
    \A c \in DOMAIN call :
        LET fr == call[c] IN
        (fr.op = "searchUniversityReviews" /\ fr.out.st = "returned") =>
            LET raw == Bodies[fr.body].v
                rs == OptGet(raw, "review_summary")
                r == fr.out.value
            IN
            /\ \A name \in Collections :
                   /\ Get(r, name).t = "arr"
                   /\ Get(r, name) =
                          IF Get(raw, name).t = "arr" THEN Get(raw, name) ELSE JArr(<<>>)
            /\ Get(r, "review_summary").t = "obj"
            /\ \A name \in SummaryCounts :
                   /\ Get(Get(r, "review_summary"), name).t = "num"
                   /\ Get(Get(r, "review_summary"), name) =
                          IF Absent(OptGet(rs, name)) THEN JNum(0) ELSE OptGet(rs, name)
            /\ \A name \in SummaryLists :
                   /\ Get(Get(r, "review_summary"), name).t = "arr"
                   /\ Get(Get(r, "review_summary"), name) =
                          IF Absent(OptGet(rs, name)) THEN JArr(<<>>) ELSE OptGet(rs, name)
            /\ Get(r, "search_status") =
                   IF Absent(Get(raw, "search_status")) THEN JStr("success")
                   ELSE Get(raw, "search_status")
            /\ Get(r, "analysis_timestamp").t = "str"
            /\ ~Absent(Get(raw, "analysis_timestamp")) =>
                   Get(r, "analysis_timestamp") = Get(raw, "analysis_timestamp")

\* a result has been returned for a body whose negative_reviews is not a
\* sequence and whose review_summary is null
C19_Witness ==
    \E c \in DOMAIN call :
        LET fr == call[c] IN
        /\ fr.op = "searchUniversityReviews"
        /\ fr.out.st = "returned"
        /\ Get(Bodies[fr.body].v, "negative_reviews") = JStr("n/a")
        /\ Get(fr.out.value, "negative_reviews") = JArr(<<>>)
        /\ Get(Get(fr.out.value, "review_summary"), "average_rating") = JNum(0)
        /\ Get(fr.out.value, "search_status") = JStr("success")

----------------------------------------------------------------------------
(* Properties of the file validator.                                       *)

\* the names of FileNames that end in .pdf or .txt when case is ignored
NamesWithExtension ==
    {<<"r", "e", "p", "o", "r", "t", ".", "P", "D", "F">>,
     <<"r", "e", "p", "o", "r", "t", ".", "p", "d", "f">>,
     <<"n", "o", "t", "e", "s", ".", "t", "x", "t">>,
     <<"n", "o", "t", "e", "s", ".", "T", "x", "T">>,
     <<".", "p", "d", "f">>}

----------------------------------------------------------------------------
(* Properties of the university-name validator.                            *)

\* C21: validateUniversityName returns an error exactly when its input is
\* empty or not a string, or the trimmed input is shorter than 3 or longer
\* than 200 characters, or the trimmed input contains a character outside
\* [A-Za-z0-9 .,&()'"-], the space being the only white space allowed;
\* otherwise it returns no error.
C21_NameValidator ==
    nameOut.st # "pending" =>
        /\ nameOut.st = "returned"
        /\ nameOut.value.t \in {"null", "str"}
        /\ nameOut.value # JNull <=>
               \/ nameIn.t # "chars"
               \/ nameIn.c = <<>>
               \/ Len(trim(nameIn.c)) < 3
               \/ Len(trim(nameIn.c)) > 200
               \/ \E i \in 1..Len(trim(nameIn.c)) :
                      trim(nameIn.c)[i] \notin NameClass_SpaceOnly

----------------------------------------------------------------------------
(* Properties of the upload page.                                          *)

\* how many times analyzeDocument has been called for the file of this id
InvokedFor(id) == Cardinality({i \in 1..Len(upload.invoked) : upload.invoked[i] = id})

\* the entries of the list that have this id
Listed(id) == {i \in 1..Len(upload.files) : upload.files[i].id = id}

\* C22: a submitted file that validateFile rejects is listed with status
\* "error" and analyzeDocument is never called for it; for every submitted
\* file that validateFile accepts, analyzeDocument is called exactly once.
C22_ValidatedBeforeUpload ==
    \A k \in 1..Len(upload.submitted) :
        LET s == upload.submitted[k] IN
        IF validateFile(s.file) # JNull
        THEN /\ InvokedFor(s.id) = 0
             /\ s.id \notin upload.awaiting
             /\ \A i \in Listed(s.id) :
                    /\ upload.files[i].status = "error"
                    /\ upload.files[i].error = validateFile(s.file)
        ELSE InvokedFor(s.id) = 1

\* an empty file and a good file were submitted together, and the good one
\* has been analysed
C22_Witness ==
    /\ Len(upload.submitted) >= 2
    /\ upload.submitted[1].file.size = 0
    /\ upload.submitted[2].file.size > 0
    /\ upload.submitted[2].file.type = "application/pdf"
    /\ upload.invoked = <<2>>
    /\ \E i \in Listed(1) : upload.files[i].status = "error"
    /\ \E i \in Listed(2) : upload.files[i].status = "success"

----------------------------------------------------------------------------
(* Properties of the reports page.                                         *)

\* nothing is stored under the key, or what is stored cannot be parsed
NothingUsable ==
    storage = NoItem \/ (storage.t = "text" /\ storage.k # "json")

\* C23: when the stored analysis result is absent or cannot be parsed, the
\* page redirects to the upload step and neither computes statistics nor
\* shows report content; report content is shown only from a non-null
\* result rebuilt from the stored string.
C23_RedirectWithoutResult ==
    /\ NothingUsable =>
           /\ reports.view \in {"none", "loading"}
           /\ reports.stats = Undefined
           /\ reports.analysisResult = JNull
           /\ reports.pc \notin {"unmounted", "mounted"} =>
                  reports.pc = "left" /\ reports.route = "/upload"
    /\ reports.view \in {"report", "crashed"} =>
           /\ reports.analysisResult # JNull
           /\ storage.t = "text" /\ storage.k = "json"
           /\ reports.analysisResult = storage.v
    /\ reports.stats # Undefined => reports.view = "report"

\* the page was opened over a string that is not JSON and has redirected
C23_Witness ==
    /\ storage = Text("nonjson")
    /\ reports.pc = "left"
    /\ reports.route = "/upload"
    /\ reports.view = "loading"

----------------------------------------------------------------------------
(* Properties of concurrent calls.                                         *)

\* C24: concurrent calls share no mutable state: each has its own attempt
\* counter, abort signals and timers, so whatever the interleaving a
\* timeout, failure or retry of one call never aborts or fails another
\* call, never delays it and never uses up its retries.
C24_Independent ==
    \A c \in DOMAIN call :
        LET fr == call[c]
            n == Len(fr.sent)
            m == Len(fr.hist)
        IN
        /\ n <= fr.retries + 1
        /\ \A k \in 1..n : fr.sent[k].attempt = k - 1
        /\ \A k \in 2..n :
               /\ fr.hist[k - 1].outcome \in Failures
               /\ fr.sent[k].at - fr.hist[k - 1].end = (2 ^ (k - 2)) * 1000
        /\ \A i \in 1..m :
               /\ fr.hist[i].end <= fr.hist[i].start + fr.timeout
               /\ fr.hist[i].outcome = "aborted" =>
                      fr.hist[i].end = fr.hist[i].start + fr.timeout
        /\ \A a \in 0..fr.retries :
               <<c, a>> \in aborted =>
                   a < n /\ now >= fr.sent[a + 1].at + fr.timeout
        /\ \A t \in timers : t.call = c => t.attempt <= fr.attempt
        /\ fr.ft.st = "thrown" =>
               /\ m = fr.retries + 1
               /\ \A i \in 1..m : fr.hist[i].outcome \in Failures
               /\ (IsApiError(fr.ft.error) /\ fr.ft.error.status = 408) <=>
                      fr.hist[m].outcome = "aborted"
        /\ fr.ft.st = "returned" =>
               /\ fr.hist[m].outcome = "resolved"
               /\ fr.ft.value = [status |-> fr.status, attempt |-> m - 1]

\* the first attempt of one call timed out while another call was in
\* flight, and that other call later got its response on its first attempt
C24_Witness ==
    \E c, d \in DOMAIN call :
        /\ c # d
        /\ Len(call[c].hist) >= 1 /\ Len(call[d].hist) = 1
        /\ call[c].hist[1].outcome = "aborted"
        /\ call[d].hist[1].outcome = "resolved"
        /\ call[d].ft.st = "returned"
        /\ call[d].hist[1].start > call[c].hist[1].start
        /\ call[d].hist[1].start < call[c].hist[1].end
        /\ call[d].hist[1].end > call[c].hist[1].end

----------------------------------------------------------------------------
(* Further properties of the transport.                                    *)

\* C25: an attempt that receives an HTTP response, whatever its status, ends
\* fetchWithTimeout with that response: no retry and no backoff follow, and
\* only attempts whose fetch rejected or was aborted have used the retries.
C25_ResponseEndsCall ==
    \A c \in DOMAIN call :
        LET fr == call[c]
            m == Len(fr.hist)
        IN
        fr.status # 0 =>
            /\ fr.pc \in {"body", "done"}
            /\ fr.ft = Returned([status |-> fr.status, attempt |-> m - 1])
            /\ fr.hist[m].outcome = "resolved"
            /\ Len(fr.sent) = m
            /\ Len(fr.delays) = m - 1
            /\ \A i \in 1..(m - 1) : fr.hist[i].outcome \in Failures
            /\ ~ \E t \in timers : t.call = c /\ t.kind = "backoff"

\* a call allowed two retries got a 503 on its first attempt and returned it
C25_Witness ==
    \E c \in DOMAIN call :
        LET fr == call[c] IN
        /\ fr.op = "fetchWithTimeout"
        /\ fr.retries = 2
        /\ fr.status = 503
        /\ fr.ft = Returned([status |-> 503, attempt |-> 0])
        /\ Len(fr.sent) = 1
        /\ fr.delays = <<>>

\* C26: the deadline timer of an attempt is cancelled when the attempt ends,
\* by a response or by a failure: once the call has returned or thrown no
\* timer of the call is pending, and no abort fires for an attempt that has
\* already settled.
C26_TimersCancelled ==
    \A c \in DOMAIN call :
        LET fr == call[c] IN
        /\ \A i \in 1..Len(fr.hist) :
               ~ \E t \in timers :
                   t.call = c /\ t.kind = "deadline" /\ t.attempt = fr.hist[i].attempt
        /\ fr.ft.st # "pending" => ~ \E t \in timers : t.call = c
        /\ \A i \in 1..Len(fr.hist) :
               <<c, fr.hist[i].attempt>> \in aborted => fr.hist[i].outcome = "aborted"

\* C27: every request searchUniversityReviews sends carries a
\* university_name that is trimmed and, once trimmed, has at least 3
\* characters, whatever string the operation was called with.
C27_SentNameIsValid ==
    \A c \in DOMAIN call :
        LET fr == call[c] IN
        fr.op = "searchUniversityReviews" =>
            \A i \in 1..Len(fr.sent) :
                LET sentName == fr.sent[i].body IN
                /\ sentName = trim(fr.name)
                /\ sentName # <<>> => sentName[1] # " " /\ sentName[Len(sentName)] # " "
                /\ Len(sentName) >= 3

----------------------------------------------------------------------------
(* Properties of the stored analysis result.                               *)

\* the analysis that succeeded last
LastCompleted == upload.completed[Len(upload.completed)]

\* C28: whenever a listed file has status "success", the storage key holds a
\* normalised result, namely that of the successful analysis that completed
\* last, whatever the order of submission and even when its file has been
\* removed from the list.
C28_LastSuccessStored ==
    (\E i \in 1..Len(upload.files) : upload.files[i].status = "success") =>
        /\ upload.completed # <<>>
        /\ storage.t = "text"
        /\ storage.k = "json"
        /\ storage.v = Stringify(LastCompleted.result)
        /\ storage.v.t = "obj"
        /\ Get(storage.v, "claims").t = "arr"
        /\ Get(storage.v, "summary").t = "obj"

\* the file submitted second succeeded first, the file submitted first
\* succeeded later with another result and was then removed: the key holds
\* the result of the removed file
C28_Witness ==
    /\ Len(upload.completed) = 2
    /\ upload.completed[1].id = 2
    /\ upload.completed[2].id = 1
    /\ upload.completed[1].result # upload.completed[2].result
    /\ Listed(1) = {}
    /\ \E i \in Listed(2) : upload.files[i].status = "success"
    /\ storage.v = Stringify(upload.completed[2].result)
    /\ storage.v # Stringify(upload.completed[1].result)

----------------------------------------------------------------------------
(* Properties of the report statistics.                                    *)

\* C29: for every analysis result the upload page can store, a result
\* without claims included, the statistics are well defined:
\* averageTrustScore is an integer between 0 and 100 and the four counts by
\* consistency add up to totalClaims.
C29_StatsWellDefined ==
    (storage \in {StoredText(r) : r \in PersistableResults} /\ reports.pc = "settled") =>
        /\ reports.view = "report"
        /\ reports.stats.averageTrustScore.t = "num"
        /\ reports.stats.averageTrustScore.n \in 0..100
        /\ reports.stats.supportedClaims.n + reports.stats.contradictedClaims.n
               + reports.stats.unverifiableClaims.n + reports.stats.unsupportedClaims.n
           = reports.stats.totalClaims.n

\* the endpoint calls checkBackendHealth has made, in order
HealthCalls == [i \in DOMAIN call |-> call[i].op]

Succeeded(i) == i \in DOMAIN call /\ call[i].out.st = "returned"
Failed(i) == i \in DOMAIN call /\ call[i].out.st = "thrown"

\* C30: checkBackendHealth never raises; it answers isHealthy = true exactly
\* when the health check and then the status check both succeeded; the status
\* check is issued only after the health check has succeeded; and when either
\* fails the answer has isHealthy = false and the failure's message in `error`
C30_HealthCheck ==
    /\ HealthCalls \in {<<>>, <<"getHealth">>, <<"getHealth", "getStatus">>}
    /\ Len(call) = 2 => Succeeded(1)
    /\ health.pc = "done" =>
          /\ health.out.st = "returned"
          /\ health.out.value.isHealthy <=> (Succeeded(1) /\ Succeeded(2))
          /\ \A i \in DOMAIN call : Failed(i) =>
                health.out.value.error = JStr(call[i].out.error.message)

====
